---- MODULE Spec2Model ----
(***************************************************************************)
(* Page layout reconstruction of scholar-assist-demo (src/utils/pdfUtils.ts *)
(* and its earlier revisions src/unnamed/part_000, src/unnamed/part_002).  *)
(*                                                                         *)
(* Strings are sequences of one-character strings, so that trimming, the   *)
(* joins and the hyphenation regular expression are computed character by  *)
(* character.  Coordinates are integers; every comparison against a        *)
(* fractional multiple (height/2, height*1.5, pageWidth*0.45, ...) is      *)
(* cross-multiplied so that it is decided exactly.                         *)
(***************************************************************************)
EXTENDS Integers, Sequences, FiniteSets, TLC, Bags

VARIABLES
  items,         \* textContent.items of the page (pdf.js runs, native coordinates)
  pageWidth,     \* viewport.width at scale 1.0
  pageHeight,    \* viewport.height at scale 1.0
  operatorList,  \* what page.getOperatorList() gives: [rejects, fnArray]
  variant,       \* which revision of processPageText runs
  pc,            \* position of the processPageText invocation
  rawItems,      \* let rawItems (pdfUtils.ts:144)
  mergedItems,   \* const mergedItems (pdfUtils.ts:162)
  columns,       \* const columns (pdfUtils.ts:165)
  visuals,       \* const visuals (pdfUtils.ts:168)
  col,           \* index of the next column of the for-of loop (pdfUtils.ts:173)
  fullPageText,  \* let fullPageText (pdfUtils.ts:170)
  result,        \* outcome of the invocation: [status, text]
  run,           \* 1 for the first reconstruction of the page, 2 for a repeated one
  firstResult,   \* outcome of the first reconstruction, kept by the caller
  peer,          \* a second processPageText invocation, on another page
  doc,           \* an extractTextFromPdf or extractPageText request
  viewer,        \* the highlight effect of PDFViewer
  app,           \* the state of the App component and its loadTranslation runs
  db             \* the IndexedDB stores of utils/storage

\* the variables of one processPageText invocation and of its caller
invocation == <<items, pageWidth, pageHeight, operatorList, variant, pc, rawItems,
                mergedItems, columns, visuals, col, fullPageText, result, run, firstResult>>

vars == <<invocation, peer, doc, viewer, app, db>>

-----------------------------------------------------------------------------
(* Characters and strings *)

LowerCase == {"a","b","c","d","e","f","g","h","i","j","k","l","m",
              "n","o","p","q","r","s","t","u","v","w","x","y","z"}
UpperCase == {"A","B","C","D","E","F","G","H","I","J","K","L","M",
              "N","O","P","Q","R","S","T","U","V","W","X","Y","Z"}
Digits == {"0","1","2","3","4","5","6","7","8","9"}

\* \w of a JavaScript regular expression
IsWord(c) == c \in LowerCase \cup UpperCase \cup Digits \cup {"_"}

\* the white space and line terminators of ECMAScript; a character outside
\* ASCII is written by its code point
WhiteSpace ==
  {" ", "\n", "\t", "\r", "\f", "U+000B", "U+000C", "U+00A0", "U+1680",
   "U+2000", "U+2001", "U+2002", "U+2003", "U+2004", "U+2005", "U+2006",
   "U+2007", "U+2008", "U+2009", "U+200A", "U+2028", "U+2029", "U+202F",
   "U+205F", "U+3000", "U+FEFF"}

\* \s of a JavaScript regular expression, and the characters String.trim removes
IsSpace(c) == c \in WhiteSpace

\* str.trim().length > 0
TrimNonEmpty(str) == \E i \in 1..Len(str) : ~IsSpace(str[i])

RECURSIVE Join(_, _)
\* Array.prototype.join: the strings of strs separated by sep
Join(strs, sep) ==
  IF Len(strs) = 0 THEN <<>>
  ELSE IF Len(strs) = 1 THEN strs[1]
  ELSE strs[1] \o sep \o Join(Tail(strs), sep)

Abs(n) == IF n < 0 THEN 0 - n ELSE n
Max(a, b) == IF a > b THEN a ELSE b

Reverse(s) == [i \in 1..Len(s) |-> s[Len(s) + 1 - i]]

-----------------------------------------------------------------------------
(* Array.prototype.sort as V8 runs it on arrays shorter than 64 elements:   *)
(* CountAndMakeRun followed by a binary insertion sort (TimSort's short     *)
(* path).  The comparators are the arrow functions of the source.          *)

\* the comparator passed to items.sort in mergeTextItems
CompareMerge(a, b) == IF Abs(a.y - b.y) < 2 THEN a.x - b.x ELSE a.y - b.y

\* the comparator passed to colItems.sort in processPageText
CompareColumn(a, b) == IF Abs(a.y - b.y) < 3 THEN a.x - b.x ELSE a.y - b.y

\* the comparator of part_002: items.sort with a 5 unit line tolerance
CompareLine5(a, b) == IF Abs(a.y - b.y) < 5 THEN a.x - b.x ELSE a.y - b.y

Compare(kind, a, b) ==
  CASE kind = "merge"  -> CompareMerge(a, b)
    [] kind = "column" -> CompareColumn(a, b)
    [] kind = "line5"  -> CompareLine5(a, b)
    [] kind = "y"      -> a.y - b.y
    [] kind = "x"      -> a.x - b.x

RECURSIVE RunEnd(_, _, _, _)
\* length of the initial run of arr: ascending runs stop at the first
\* descent, strictly descending runs at the first non-descent
RunEnd(kind, arr, isDescending, idx) ==
  IF idx > Len(arr) THEN idx - 1
  ELSE LET order == Compare(kind, arr[idx], arr[idx - 1])
       IN IF (isDescending /\ order >= 0) \/ (~isDescending /\ order < 0)
          THEN idx - 1
          ELSE RunEnd(kind, arr, isDescending, idx + 1)

\* the initial run, reversed in place when it is descending
CountAndMakeRun(kind, arr) ==
  LET isDescending == Compare(kind, arr[2], arr[1]) < 0
      runLength == RunEnd(kind, arr, isDescending, 3)
  IN [arr |-> IF isDescending
              THEN Reverse(SubSeq(arr, 1, runLength)) \o SubSeq(arr, runLength + 1, Len(arr))
              ELSE arr,
      runLength |-> runLength]

RECURSIVE BinarySearch(_, _, _, _, _)
\* insertion point of pivot in the sorted prefix arr[left..right-1]
BinarySearch(kind, arr, pivot, left, right) ==
  IF left >= right THEN left
  ELSE LET mid == left + ((right - left) \div 2)
       IN IF Compare(kind, pivot, arr[mid]) < 0
          THEN BinarySearch(kind, arr, pivot, left, mid)
          ELSE BinarySearch(kind, arr, pivot, mid + 1, right)

RECURSIVE BinaryInsertionSort(_, _, _)
BinaryInsertionSort(kind, arr, start) ==
  IF start > Len(arr) THEN arr
  ELSE LET pivot == arr[start]
           left == BinarySearch(kind, arr, pivot, 1, start)
       IN BinaryInsertionSort(kind,
            SubSeq(arr, 1, left - 1) \o <<pivot>> \o SubSeq(arr, left, start - 1)
              \o SubSeq(arr, start + 1, Len(arr)),
            start + 1)

ArraySort(kind, arr) ==
  IF Len(arr) < 2 THEN arr
  ELSE LET r == CountAndMakeRun(kind, arr)
       IN BinaryInsertionSort(kind, r.arr, r.runLength + 1)

-----------------------------------------------------------------------------
(* Step 1: the coalescer, mergeTextItems (pdfUtils.ts:61-90) *)

\* |current.y - next.y| < current.height / 2
isSameLine(current, next) == 2 * Abs(current.y - next.y) < current.height

\* next.x - (current.x + current.width) < current.height * 0.5
isAdjacent(current, next) == 2 * (next.x - (current.x + current.width)) < current.height

\* a variation of Absorb: the width grows by the width of next alone
Absorb_noGap(current, next) ==
  [current EXCEPT !.str = @ \o next.str, !.width = @ + next.width]

\* current.str += next.str; current.width += next.width + gap
Absorb(current, next) ==
  [current EXCEPT !.str = @ \o next.str,
                  !.width = @ + next.width + (next.x - (current.x + current.width))]

RECURSIVE MergeLoop_flushEarly(_, _, _, _, _)
\* a variation of MergeLoop: the accumulator is pushed to the merged list
\* before each extension as well
MergeLoop_flushEarly(arr, i, at, current, merged) ==
  IF i > Len(arr)
  THEN [merged |-> Append(merged, current), items |-> [arr EXCEPT ![at] = current]]
  ELSE LET next == arr[i]
       IN IF isSameLine(current, next) /\ isAdjacent(current, next)
          THEN MergeLoop_flushEarly(arr, i + 1, at, Absorb(current, next),
                                    Append(merged, current))
          ELSE MergeLoop_flushEarly([arr EXCEPT ![at] = current], i + 1, i, next,
                                    Append(merged, current))

RECURSIVE MergeLoop(_, _, _, _, _)
\* the for loop of mergeTextItems over the sorted array; at is the index
\* that the accumulator object occupies in the array.  Returns the merged
\* list and the array as the loop leaves it (accumulators extended in place)
MergeLoop(arr, i, at, current, merged) ==
  IF i > Len(arr)
  THEN [merged |-> Append(merged, current), items |-> [arr EXCEPT ![at] = current]]
  ELSE LET next == arr[i]
       IN IF isSameLine(current, next) /\ isAdjacent(current, next)
          THEN MergeLoop(arr, i + 1, at, Absorb(current, next), merged)
          ELSE MergeLoop([arr EXCEPT ![at] = current], i + 1, i, next,
                         Append(merged, current))

\* the return value of mergeTextItems, and its argument array after the call
MergeCall(its) ==
  IF Len(its) = 0 THEN [merged |-> <<>>, items |-> its]
  ELSE LET sorted == ArraySort("merge", its)
       IN MergeLoop(sorted, 2, 1, sorted[1], <<>>)

\* a variation of mergeTextItems: the walk runs over the list as it is given
mergeTextItems_unsorted(its) ==
  IF Len(its) = 0 THEN <<>> ELSE MergeLoop(its, 2, 1, its[1], <<>>).merged

mergeTextItems(its) == MergeCall(its).merged

-----------------------------------------------------------------------------
(* Step 2: the column segmenter, splitIntoColumns (pdfUtils.ts:97-116) *)

\* twice the horizontal centre item.x + item.width / 2
Centre2(item) == 2 * item.x + item.width

\* xCenters.filter(x => x < pageWidth * 0.45).length
leftCount(its, w) == Cardinality({i \in 1..Len(its) : 100 * Centre2(its[i]) < 90 * w})

\* xCenters.filter(x => x > pageWidth * 0.55).length
rightCount(its, w) == Cardinality({i \in 1..Len(its) : 100 * Centre2(its[i]) > 110 * w})

\* a variation of isTwoColumn: one populated side is enough
isTwoColumn_either(its, w) ==
  \/ 10 * leftCount(its, w) > 3 * Len(its)
  \/ 10 * rightCount(its, w) > 3 * Len(its)

\* leftCount > items.length * 0.3 && rightCount > items.length * 0.3
isTwoColumn(its, w) ==
  /\ 10 * leftCount(its, w) > 3 * Len(its)
  /\ 10 * rightCount(its, w) > 3 * Len(its)

InLeftHalf(item, w) == Centre2(item) < w

\* a variation of splitIntoColumns: the right column is cut at 55 % of the
\* page width, as the histogram is
splitIntoColumns_dropCentre(its, w) ==
  IF isTwoColumn(its, w)
  THEN << SelectSeq(its, LAMBDA item : InLeftHalf(item, w)),
          SelectSeq(its, LAMBDA item : 100 * Centre2(item) > 110 * w) >>
  ELSE << its >>

splitIntoColumns(its, w) ==
  IF isTwoColumn(its, w)
  THEN << SelectSeq(its, LAMBDA item : InLeftHalf(item, w)),
          SelectSeq(its, LAMBDA item : ~InLeftHalf(item, w)) >>
  ELSE << its >>

-----------------------------------------------------------------------------
(* Step 3: the visual signal, getVisualSignals (pdfUtils.ts:121-132) *)

OPS_constructPath == 13
OPS_rectangle == 24
OPS_stroke == 73
OPS_paintImageXObject == 85
OPS_paintInlineImageXObject == 86

Includes(fns, op) == \E i \in 1..Len(fns) : fns[i] = op

\* a variation of getVisualSignals: a failure is taken for visual content
getVisualSignals_failVisual(ops) ==
  IF ops.rejects
  THEN [hasImage |-> TRUE, hasGraphics |-> TRUE]
  ELSE [hasImage |-> Includes(ops.fnArray, OPS_paintImageXObject)
                       \/ Includes(ops.fnArray, OPS_paintInlineImageXObject),
        hasGraphics |-> Includes(ops.fnArray, OPS_constructPath)]

\* ops is [rejects, fnArray]: a rejected getOperatorList is caught
getVisualSignals(ops) ==
  IF ops.rejects
  THEN [hasImage |-> FALSE, hasGraphics |-> FALSE]
  ELSE [hasImage |-> Includes(ops.fnArray, OPS_paintImageXObject)
                       \/ Includes(ops.fnArray, OPS_paintInlineImageXObject),
        hasGraphics |-> Includes(ops.fnArray, OPS_constructPath)]

-----------------------------------------------------------------------------
(* Steps 4 and 5: line assembly, table rows and vertical gaps inside one    *)
(* column (pdfUtils.ts:173-241)                                            *)

\* the placeholder "\n\n> [!VISUAL_CONTENT] Figure/Table/Formula Region Detected\n\n"
VisualPlaceholder ==
  << "\n", "\n", ">", " ", "[", "!", "V", "I", "S", "U", "A", "L", "_",
     "C", "O", "N", "T", "E", "N", "T", "]", " ",
     "F", "i", "g", "u", "r", "e", "/", "T", "a", "b", "l", "e", "/",
     "F", "o", "r", "m", "u", "l", "a", " ",
     "R", "e", "g", "i", "o", "n", " ",
     "D", "e", "t", "e", "c", "t", "e", "d", "\n", "\n" >>

TableGapThreshold == 20

Strs(line) == [k \in 1..Len(line) |-> line[k].str]

RECURSIVE MaxGapLoop(_, _, _)
\* for (k = 0; k < currentLine.length - 1; k++) if (gap > 20) maxGap = gap
MaxGapLoop(line, k, maxGap) ==
  IF k > Len(line) - 1 THEN maxGap
  ELSE LET gap == line[k + 1].x - (line[k].x + line[k].width)
       IN MaxGapLoop(line, k + 1, IF gap > TableGapThreshold THEN gap ELSE maxGap)

isTableCandidate(line) ==
  Len(line) > 2 /\ MaxGapLoop(line, 1, 0) > TableGapThreshold

\* "| " + cells.join(" | ") + " |"
TableRow(line) == <<"|", " ">> \o Join(Strs(line), <<" ", "|", " ">>) \o <<" ", "|">>

ProseLine(line) == Join(Strs(line), <<" ">>)

\* the text of a line closed at a line boundary (pdfUtils.ts:191-216)
CloseLine(line) ==
  IF Len(line) = 0 THEN <<>>
  ELSE (IF isTableCandidate(line) THEN TableRow(line) ELSE ProseLine(line)) \o <<"\n">>

\* the text of the last line of a column (pdfUtils.ts:236-238)
CloseLastLine(line) ==
  IF Len(line) = 0 THEN <<>> ELSE ProseLine(line) \o <<"\n">>

\* a variation of GapText: the placeholder is gated by hasImage alone
GapText_imageOnly(item, lastBottom, vis) ==
  LET gapY == item.y - lastBottom
  IN IF gapY > item.height * 4 /\ vis.hasImage
     THEN VisualPlaceholder
     ELSE IF 2 * gapY > 3 * item.height THEN <<"\n">> ELSE <<>>

\* what is emitted for the vertical gap before item (pdfUtils.ts:220-225)
GapText(item, lastBottom, vis) ==
  LET gapY == item.y - lastBottom
  IN IF gapY > item.height * 4 /\ (vis.hasImage \/ vis.hasGraphics)
     THEN VisualPlaceholder
     ELSE IF 2 * gapY > 3 * item.height THEN <<"\n">> ELSE <<>>

\* Math.abs(item.y - lastY) > item.height * 0.5
isNewLine(item, lastY) == 2 * Abs(item.y - lastY) > item.height

RECURSIVE ColumnLoop(_, _, _, _, _, _, _)
\* the inner for-of loop over the sorted column and the flush of its last line
ColumnLoop(colItems, i, lastY, lastBottom, currentLine, colText, vis) ==
  IF i > Len(colItems) THEN colText \o CloseLastLine(currentLine)
  ELSE LET item == colItems[i]
           newLine == isNewLine(item, lastY)
           text == IF newLine
                   THEN colText \o CloseLine(currentLine) \o GapText(item, lastBottom, vis)
                   ELSE colText
       IN ColumnLoop(colItems, i + 1,
                     IF newLine THEN item.y ELSE lastY,
                     Max(lastBottom, item.y + item.height),
                     Append(IF newLine THEN <<>> ELSE currentLine, item),
                     text, vis)

\* colText of one column, colItems already sorted
ColumnText(colItems, vis) ==
  LET lastY == IF Len(colItems) > 0 THEN colItems[1].y ELSE 0
      lastBottom == lastY + (IF Len(colItems) > 0 THEN colItems[1].height ELSE 0)
  IN ColumnLoop(colItems, 1, lastY, lastBottom, <<>>, <<>>, vis)

-----------------------------------------------------------------------------
(* Step 6: hyphenation repair,                                             *)
(* fullPageText.replace(/(\w+)-\s*\n\s*(\w+)/g, '$1$2') (pdfUtils.ts:245)  *)

RECURSIVE WordEnd(_, _)
\* index of the last character of the \w run that starts at i
WordEnd(s, i) == IF i < Len(s) /\ IsWord(s[i + 1]) THEN WordEnd(s, i + 1) ELSE i

RECURSIVE SpaceEnd(_, _)
\* index of the last character of the (possibly empty) \s run that starts at i
SpaceEnd(s, i) == IF i <= Len(s) /\ IsSpace(s[i]) THEN SpaceEnd(s, i + 1) ELSE i - 1

RECURSIVE HyphenReplace(_, _)
\* the replacement from index i on.  A match starting in a \w run takes the
\* run up to its end (the hyphen must follow the run), the hyphen, a \s run
\* holding a line feed, and the whole following \w run; the search resumes
\* behind that second run, which is therefore not the head of another match
HyphenReplace(s, i) ==
  IF i > Len(s) THEN <<>>
  ELSE IF ~IsWord(s[i]) THEN <<s[i]>> \o HyphenReplace(s, i + 1)
  ELSE LET j == WordEnd(s, i)
           k == SpaceEnd(s, j + 2)
           hit == /\ j + 1 <= Len(s)
                  /\ s[j + 1] = "-"
                  /\ \E n \in (j + 2)..k : s[n] = "\n"
                  /\ k + 1 <= Len(s)
                  /\ IsWord(s[k + 1])
       IN IF hit
          THEN LET m == WordEnd(s, k + 1)
               IN SubSeq(s, i, j) \o SubSeq(s, k + 1, m) \o HyphenReplace(s, m + 1)
          ELSE SubSeq(s, i, j) \o HyphenReplace(s, j + 1)

RepairHyphenation(s) == HyphenReplace(s, 1)

-----------------------------------------------------------------------------
(* Token normalizer (pdfUtils.ts:143-159) *)

\* .map(item => ({str, x: transform[4], y: pageHeight - transform[5], ...}))
ToTextBlock(item, h) ==
  [str |-> item.str,
   x |-> item.tx,
   y |-> h - item.ty,
   width |-> item.width,
   height |-> IF item.height = 0 THEN 10 ELSE item.height,
   hasEOL |-> item.hasEOL]

\* textContent.items.filter(item => item.str.trim().length > 0).map(...)
Normalize(its, h) ==
  LET kept == SelectSeq(its, LAMBDA item : TrimNonEmpty(item.str))
  IN [k \in 1..Len(kept) |-> ToTextBlock(kept[k], h)]

\* a variation of InBody: only the header band is cut
InBody_noFooter(i, h) == 100 * i.y > 5 * h

\* i.y > pageHeight * 0.05 && i.y < pageHeight * 0.95
InBody(i, h) == 100 * i.y > 5 * h /\ 100 * i.y < 95 * h

FilterHeaderFooter(its, h) == SelectSeq(its, LAMBDA i : InBody(i, h))

-----------------------------------------------------------------------------
(* The pages fed to the reconstruction.  Every page is 200 x 200 units;     *)
(* runs are 10 units high unless pdf.js reports no height.                 *)

MaxItems == 4   \* runs on a page drawn from a pool
MaxRows == 2    \* rows of a page laid out on a grid of cells

PageSize == [width |-> 200, height |-> 200]

\* a pdf.js run whose top-left-origin position is (x, top)
TextRun(str, x, top, width, height) ==
  [str |-> str, tx |-> x, ty |-> PageSize.height - top,
   width |-> width, height |-> height, hasEOL |-> FALSE]

NoOperators == [rejects |-> FALSE, fnArray |-> <<>>]
ImageOperators == [rejects |-> FALSE, fnArray |-> <<OPS_paintImageXObject>>]
PathOperators == [rejects |-> FALSE, fnArray |-> <<OPS_constructPath>>]

\* Runs of a two-column page: left runs at x = 0 and 30, a run around the
\* centre at x = 90, right runs at x = 120; on the lines 20 and 32, with
\* two runs 3 units below line 20; a header run, a footer run, a run that
\* is a no-break space
LayoutPool ==
  << TextRun(<<"w">>, 120, 20, 4, 10),
     TextRun(<<"w">>, 120, 23, 4, 10),
     TextRun(<<"w">>, 120, 32, 4, 10),
     TextRun(<<"z">>, 90, 32, 28, 10),
     TextRun(<<"z">>, 90, 32, 4, 10),
     TextRun(<<"z">>, 90, 20, 28, 10),
     TextRun(<<"z">>, 90, 20, 4, 10),
     TextRun(<<"y">>, 30, 32, 4, 0),
     TextRun(<<"y">>, 30, 20, 4, 0),
     TextRun(<<"x">>, 0, 32, 28, 10),
     TextRun(<<"x">>, 0, 32, 4, 10),
     TextRun(<<"x">>, 0, 23, 4, 10),
     TextRun(<<"x">>, 0, 20, 28, 10),
     TextRun(<<"x">>, 0, 20, 4, 10),
     TextRun(<<"h">>, 0, 4, 4, 10),
     TextRun(<<"f">>, 0, 196, 4, 10),
     TextRun(<<"U+00A0">>, 0, 20, 4, 10) >>

LineTexts == << <<"x">>, <<"y", "-">>, <<"-">> >>
LineTops == << 80, 50, 32, 20 >>

\* Runs of a one-column page, one run per line: line 32 continues the
\* paragraph of line 20, line 50 that of line 32; line 50 is a paragraph gap
\* below line 20, and line 80 is a gap of five heights below line 20
LinePool ==
  [n \in 1..(Len(LineTops) * Len(LineTexts)) |->
     TextRun(LineTexts[((n - 1) % Len(LineTexts)) + 1], 0,
             LineTops[((n - 1) \div Len(LineTexts)) + 1], 4, 10)]

RECURSIVE Ascending(_, _, _)
\* the non-decreasing sequences of n indices between lo and hi
Ascending(n, lo, hi) ==
  IF n = 0 THEN {<<>>}
  ELSE UNION {{<<k>> \o f : f \in Ascending(n - 1, k, hi)} : k \in lo..hi}

\* the sequences of at most MaxItems runs of a pool, in pool order (the
\* sorts of the reconstruction do not depend on the order of the runs
\* except among runs that compare equal)
Draws(pool) ==
  LET picks == UNION {Ascending(n, 1, Len(pool)) : n \in 0..MaxItems}
  IN {[i \in 1..Len(f) |-> pool[f[i]]] : f \in picks}

CellLeft == <<0, 30, 60>>
CellText == << <<"a">>, <<"b">>, <<"c">> >>
RowTop(r) == 20 + 12 * (r - 1)

\* widths of the cells of a grid page: 0 for an empty cell, 4 for a narrow
\* run, 28 (first cell only) for a run that reaches the next cell
Grids ==
  {g \in [(1..MaxRows) \X (1..3) -> {0, 4, 28}] :
     \A r \in 1..MaxRows : g[<<r, 2>>] # 28 /\ g[<<r, 3>>] # 28}

RECURSIVE GridRuns(_, _)
\* the runs of grid g from cell number n on, row by row
GridRuns(g, n) ==
  IF n > 3 * MaxRows THEN <<>>
  ELSE LET r == ((n - 1) \div 3) + 1
           c == ((n - 1) % 3) + 1
       IN (IF g[<<r, c>>] = 0 THEN <<>>
           ELSE << TextRun(CellText[c], CellLeft[c], RowTop(r), g[<<r, c>>], 10) >>)
          \o GridRuns(g, n + 1)

LayoutPages == {[items |-> its, operatorList |-> NoOperators] : its \in Draws(LayoutPool)}
LinePages ==
  {[items |-> its, operatorList |-> ops] :
     its \in Draws(LinePool), ops \in {NoOperators, ImageOperators, PathOperators}}
TablePages == {[items |-> GridRuns(g, 1), operatorList |-> NoOperators] : g \in Grids}

\* Runs whose lines are not a whole line pitch apart: a right run on line 20
\* and a left run 5 units below it; a heading 30 units high on line 20, a
\* run on line 32 beside it, and a run on line 62
OffsetPool ==
  << TextRun(<<"w">>, 120, 20, 4, 10),
     TextRun(<<"x">>, 0, 25, 4, 10),
     TextRun(<<"x">>, 0, 20, 4, 30),
     TextRun(<<"y">>, 40, 32, 4, 10),
     TextRun(<<"x">>, 0, 62, 4, 10) >>

OffsetPages == {[items |-> its, operatorList |-> NoOperators] : its \in Draws(OffsetPool)}

\* getOperatorList rejects, or the page has no getOperatorList
FailingOperators == [rejects |-> TRUE, fnArray |-> <<>>]

\* the operator codes that occur in the operator lists: those of OPS and
\* one code that OPS does not name
OperatorCodes ==
  {OPS_constructPath, OPS_rectangle, OPS_stroke, OPS_paintImageXObject,
   OPS_paintInlineImageXObject, 10}

\* operator lists of at most two operators, and the failing one
OperatorLists ==
  {FailingOperators}
    \cup {[rejects |-> FALSE, fnArray |-> f] :
            f \in {<<>>} \cup {<<a>> : a \in OperatorCodes}
                     \cup {<<a, b>> : a \in OperatorCodes, b \in OperatorCodes}}

\* two lines five heights apart, and two lines of one paragraph
SignalItems ==
  { << TextRun(<<"x">>, 0, 20, 4, 10), TextRun(<<"x">>, 0, 80, 4, 10) >>,
    << TextRun(<<"x">>, 0, 20, 4, 10), TextRun(<<"x">>, 0, 32, 4, 10) >> }

SignalPages == {[items |-> its, operatorList |-> ops] : its \in SignalItems, ops \in OperatorLists}

Pages == LayoutPages \cup LinePages \cup TablePages \cup OffsetPages \cup SignalPages

-----------------------------------------------------------------------------
(* processPageText of src/utils/pdfUtils.ts, one action per stage *)

NoResult == [status |-> "none", text |-> <<>>]

\* no second invocation, no document request, no highlight effect
NoPeer == [pc |-> "none"]
NoDocument == [pc |-> "none"]
NoViewer == [pc |-> "none"]
NoApp == [pc |-> "none"]
NoStore == [pc |-> "none"]

Idle ==
  /\ pc = "start"
  /\ rawItems = <<>>
  /\ mergedItems = <<>>
  /\ columns = <<>>
  /\ visuals = [hasImage |-> FALSE, hasGraphics |-> FALSE]
  /\ col = 0
  /\ fullPageText = <<>>
  /\ result = NoResult

Init ==
  /\ \E p \in Pages : items = p.items /\ operatorList = p.operatorList
  /\ pageWidth = PageSize.width
  /\ pageHeight = PageSize.height
  /\ variant = "pdfUtils"
  /\ run = 1
  /\ firstResult = NoResult
  /\ Idle
  /\ peer = NoPeer /\ doc = NoDocument /\ viewer = NoViewer
  /\ app = NoApp /\ db = NoStore

page == <<items, pageWidth, pageHeight, operatorList, variant>>

\* a variation of GetTextContent: a repeated call works on the token objects
\* of the previous call instead of mapping the runs to fresh ones
GetTextContent_reuse ==
  /\ variant = "pdfUtils" /\ pc = "start"
  /\ rawItems' = IF run = 1 THEN Normalize(items, pageHeight) ELSE rawItems
  /\ pc' = "filter"
  /\ UNCHANGED <<peer, doc, viewer, app, db, page, mergedItems, columns, visuals, col, fullPageText, result,
                 run, firstResult>>

\* await page.getTextContent(); the filter and map of lines 144-154
GetTextContent ==
  /\ variant = "pdfUtils" /\ pc = "start"
  /\ rawItems' = Normalize(items, pageHeight)
  /\ pc' = "filter"
  /\ UNCHANGED <<peer, doc, viewer, app, db, page, mergedItems, columns, visuals, col, fullPageText, result,
                 run, firstResult>>

\* rawItems = rawItems.filter(...) of line 159
DropHeaderFooter ==
  /\ pc = "filter"
  /\ rawItems' = FilterHeaderFooter(rawItems, pageHeight)
  /\ pc' = "merge"
  /\ UNCHANGED <<peer, doc, viewer, app, db, page, mergedItems, columns, visuals, col, fullPageText, result,
                 run, firstResult>>

\* const mergedItems = mergeTextItems(rawItems): rawItems is sorted in place
\* and the runs that served as accumulator are extended in place
Coalesce ==
  /\ pc = "merge"
  /\ mergedItems' = mergeTextItems(rawItems)
  /\ rawItems' = MergeCall(rawItems).items
  /\ pc' = "split"
  /\ UNCHANGED <<peer, doc, viewer, app, db, page, columns, visuals, col, fullPageText, result, run, firstResult>>

\* const columns = splitIntoColumns(mergedItems, pageWidth)
Segment ==
  /\ pc = "split"
  /\ columns' = splitIntoColumns(mergedItems, pageWidth)
  /\ pc' = "visuals"
  /\ UNCHANGED <<peer, doc, viewer, app, db, page, rawItems, mergedItems, visuals, col, fullPageText, result,
                 run, firstResult>>

\* const visuals = await getVisualSignals(page); let fullPageText = ""
DetectVisuals ==
  /\ pc = "visuals"
  /\ visuals' = getVisualSignals(operatorList)
  /\ fullPageText' = <<>>
  /\ col' = 1
  /\ pc' = "columns"
  /\ UNCHANGED <<peer, doc, viewer, app, db, page, rawItems, mergedItems, columns, result, run, firstResult>>

\* one iteration of for (const colItems of columns): the column is sorted in
\* place (in single-column mode it is the mergedItems array itself), and
\* colText + "\n\n" is appended to fullPageText
LinearizeColumn ==
  /\ pc = "columns" /\ col <= Len(columns)
  /\ LET sorted == ArraySort("column", columns[col])
     IN /\ columns' = [columns EXCEPT ![col] = sorted]
        /\ mergedItems' = IF Len(columns) = 1 THEN sorted ELSE mergedItems
        /\ fullPageText' = fullPageText \o ColumnText(sorted, visuals) \o <<"\n", "\n">>
  /\ col' = col + 1
  /\ UNCHANGED <<peer, doc, viewer, app, db, page, pc, rawItems, visuals, result, run, firstResult>>

\* the replace of line 245 and return fullPageText
Return ==
  /\ pc = "columns" /\ col > Len(columns)
  /\ fullPageText' = RepairHyphenation(fullPageText)
  /\ result' = [status |-> "ok", text |-> RepairHyphenation(fullPageText)]
  /\ pc' = "done"
  /\ UNCHANGED <<peer, doc, viewer, app, db, page, rawItems, mergedItems, columns, visuals, col, run, firstResult>>

Next ==
  \/ GetTextContent
  \/ DropHeaderFooter
  \/ Coalesce
  \/ Segment
  \/ DetectVisuals
  \/ LinearizeColumn
  \/ Return

Spec == Init /\ [][Next]_vars

\* a later call processPageText(page) on the same page (extractPageText is
\* called again for a page already shown); the caller keeps the first text
Again ==
  /\ pc = "done" /\ run = 1 /\ variant = "pdfUtils"
  /\ firstResult' = result
  /\ run' = 2
  /\ pc' = "start"
  /\ result' = NoResult
  /\ UNCHANGED <<peer, doc, viewer, app, db, page, rawItems, mergedItems, columns, visuals, col, fullPageText>>

NextTwice == Next \/ Again

SpecTwice == Init /\ [][NextTwice]_vars

-----------------------------------------------------------------------------
(* processPageText as one function of its page (pdfUtils.ts:137-248) *)

RECURSIVE ColumnsText(_, _, _)
\* the for-of loop over the columns, from column c on
ColumnsText(cols, c, vis) ==
  IF c > Len(cols) THEN <<>>
  ELSE ColumnText(ArraySort("column", cols[c]), vis) \o <<"\n", "\n">>
         \o ColumnsText(cols, c + 1, vis)

processPageText(its, w, h, ops) ==
  LET body == FilterHeaderFooter(Normalize(its, h), h)
      cols == splitIntoColumns(mergeTextItems(body), w)
  IN RepairHyphenation(ColumnsText(cols, 1, getVisualSignals(ops)))

-----------------------------------------------------------------------------
(* Two processPageText invocations in flight at once.  The second one,     *)
(* peer, advances from one await to the next: page.getTextContent()        *)
(* (line 138), page.getOperatorList() inside getVisualSignals (line 123),  *)
(* and the synchronous rest of the function.                               *)

\* the pages of the first invocation
PairPages == TablePages \cup OffsetPages

\* a two-column page, a page with a gap of five heights that paints an
\* image, a page without runs
SamplePages ==
  << [items |-> << TextRun(<<"w">>, 120, 20, 4, 10), TextRun(<<"x">>, 0, 20, 4, 10) >>,
      operatorList |-> NoOperators],
     [items |-> << TextRun(<<"y", "-">>, 0, 20, 4, 10), TextRun(<<"x">>, 0, 80, 4, 10) >>,
      operatorList |-> ImageOperators],
     [items |-> <<>>, operatorList |-> NoOperators] >>

\* the pages of the second invocation
PeerPages == {SamplePages[n] : n \in 1..Len(SamplePages)}

InitPair ==
  /\ \E p \in PairPages : items = p.items /\ operatorList = p.operatorList
  /\ pageWidth = PageSize.width
  /\ pageHeight = PageSize.height
  /\ variant = "pdfUtils"
  /\ run = 1
  /\ firstResult = NoResult
  /\ Idle
  /\ \E p \in PeerPages :
       peer = [pc |-> "start", items |-> p.items, operatorList |-> p.operatorList,
               rawItems |-> <<>>, columns |-> <<>>,
               visuals |-> [hasImage |-> FALSE, hasGraphics |-> FALSE],
               result |-> NoResult]
  /\ doc = NoDocument /\ viewer = NoViewer
  /\ app = NoApp /\ db = NoStore

\* a variation of PeerGetTextContent: the token list is a buffer that both
\* invocations append to
PeerGetTextContent_shared ==
  /\ peer.pc = "start"
  /\ LET body == rawItems \o FilterHeaderFooter(Normalize(peer.items, pageHeight), pageHeight)
     IN peer' = [peer EXCEPT !.pc = "visuals",
                             !.rawItems = MergeCall(body).items,
                             !.columns = splitIntoColumns(mergeTextItems(body), pageWidth)]
  /\ UNCHANGED <<invocation, doc, viewer, app, db>>

\* getTextContent resolves: lines 139-165, up to the await of line 168
PeerGetTextContent ==
  /\ peer.pc = "start"
  /\ LET body == FilterHeaderFooter(Normalize(peer.items, pageHeight), pageHeight)
     IN peer' = [peer EXCEPT !.pc = "visuals",
                             !.rawItems = MergeCall(body).items,
                             !.columns = splitIntoColumns(mergeTextItems(body), pageWidth)]
  /\ UNCHANGED <<invocation, doc, viewer, app, db>>

\* getOperatorList settles: getVisualSignals returns (lines 124-131)
PeerGetOperatorList ==
  /\ peer.pc = "visuals"
  /\ peer' = [peer EXCEPT !.pc = "columns", !.visuals = getVisualSignals(peer.operatorList)]
  /\ UNCHANGED <<invocation, doc, viewer, app, db>>

\* lines 170-247: the column loop, the hyphenation repair and the return
PeerReturn ==
  /\ peer.pc = "columns"
  /\ peer' = [peer EXCEPT
                !.pc = "done",
                !.columns = [c \in 1..Len(peer.columns) |->
                               ArraySort("column", peer.columns[c])],
                !.result = [status |-> "ok",
                            text |-> RepairHyphenation(
                                       ColumnsText(peer.columns, 1, peer.visuals))]]
  /\ UNCHANGED <<invocation, doc, viewer, app, db>>

NextPair == Next \/ PeerGetTextContent \/ PeerGetOperatorList \/ PeerReturn

SpecPair == InitPair /\ [][NextPair]_vars

-----------------------------------------------------------------------------
(* extractTextFromPdf and extractPageText (pdfUtils.ts:250-294).  A request *)
(* advances from one await to the next: the loading task, pdf.getPage and  *)
(* processPageText.  fault names the upstream call that rejects, if any.   *)

MaxNumPages == 32   \* pages of the largest document

PageCap == 30

Min(a, b) == IF a < b THEN a ELSE b

\* a variation of maxPagesOf: every page of the document is processed
maxPagesOf_uncapped(numPages) == numPages

\* const maxPages = Math.min(pdf.numPages, 30)
maxPagesOf(numPages) == Min(numPages, PageCap)

DigitChars == <<"0", "1", "2", "3", "4", "5", "6", "7", "8", "9">>

RECURSIVE Decimal(_)
\* `${i}` for a non-negative integer
Decimal(n) ==
  IF n < 10 THEN <<DigitChars[n + 1]>>
  ELSE Decimal(n \div 10) \o <<DigitChars[(n % 10) + 1]>>

\* `\n\n--- Page ${i} ---\n\n`
PageMarker(i) ==
  <<"\n", "\n", "-", "-", "-", " ", "P", "a", "g", "e", " ">> \o Decimal(i)
    \o <<" ", "-", "-", "-", "\n", "\n">>

\* page i of the document
DocPage(i) == SamplePages[((i - 1) % Len(SamplePages)) + 1]

\* what processPageText returns for page i
DocPageText(i) ==
  processPageText(DocPage(i).items, PageSize.width, PageSize.height, DocPage(i).operatorList)

NoFault == [call |-> "none", at |-> 0]

Faults ==
  {NoFault, [call |-> "getDocument", at |-> 0]}
    \cup {[call |-> c, at |-> n] : c \in {"getPage", "getTextContent"}, n \in {1, 2, PageCap}}

Requests ==
  {[kind |-> "document", numPages |-> n, pageNumber |-> 0, fault |-> f] :
     n \in 0..MaxNumPages, f \in Faults}
  \cup
  {[kind |-> "page", numPages |-> n, pageNumber |-> k, fault |-> f] :
     n \in {0, 1, 2, MaxNumPages}, k \in 0..3, f \in Faults}

Pending == [status |-> "pending", text |-> <<>>]
Resolved(text) == [status |-> "resolved", text |-> text]

\* throw new Error("PDF Parsing Failed") of extractTextFromPdf
Rejected == [status |-> "rejected", text |-> <<>>]

\* what the catch block of the request makes of an exception
Caught(kind) == IF kind = "document" THEN Rejected ELSE Resolved(<<>>)

InitDocument ==
  /\ \E r \in Requests :
       doc = [pc |-> "open", kind |-> r.kind, numPages |-> r.numPages,
              pageNumber |-> r.pageNumber, fault |-> r.fault,
              i |-> 0, fullText |-> <<>>, opened |-> 0, requested |-> <<>>,
              read |-> <<>>, calls |-> <<>>, outcome |-> Pending]
  /\ items = <<>> /\ operatorList = NoOperators
  /\ pageWidth = PageSize.width
  /\ pageHeight = PageSize.height
  /\ variant = "pdfUtils"
  /\ run = 1
  /\ firstResult = NoResult
  /\ Idle
  /\ peer = NoPeer /\ viewer = NoViewer
  /\ app = NoApp /\ db = NoStore

\* the request ends: the promise of the request settles
Settle(d, outcome) == [d EXCEPT !.pc = "done", !.outcome = outcome]

\* an upstream call on page n is issued, completes or rejects; "append" is
\* the statement fullText += ... of line 268
Issued(call, n) == [call |-> call, page |-> n, phase |-> "issued"]
Completed(call, n) == [call |-> call, page |-> n, phase |-> "completed"]
Failed(call, n) == [call |-> call, page |-> n, phase |-> "rejected"]

\* the request calls pdf.getPage(n) and awaits it
RequestPage(d, n) ==
  [d EXCEPT !.pc = "getPage", !.i = n, !.requested = Append(@, n),
            !.calls = Append(@, Issued("getPage", n))]

\* a variation of NextPageNumber: every other page is taken
NextPageNumber_skip(i) == i + 2

\* i++ of the loop of line 265
NextPageNumber(i) == i + 1

\* await loadingTask.promise settles (lines 259-266 and 286-289)
OpenDocument ==
  /\ doc.pc = "open"
  /\ LET d == [doc EXCEPT !.opened = @ + 1]
     IN doc' =
          IF d.fault.call = "getDocument" THEN Settle(d, Caught(d.kind))
          ELSE IF d.kind = "document"
          THEN IF 1 <= maxPagesOf(d.numPages)
               THEN RequestPage(d, 1)
               ELSE Settle(d, Resolved(d.fullText))
          ELSE IF d.pageNumber > d.numPages \/ d.pageNumber < 1
               THEN Settle(d, Resolved(<<>>))
               ELSE RequestPage(d, d.pageNumber)
  /\ UNCHANGED <<invocation, peer, viewer, app, db>>

\* await pdf.getPage(i) settles; processPageText(page) is called and
\* awaits page.getTextContent() (lines 266-267 and 289-290)
GetPage ==
  /\ doc.pc = "getPage"
  /\ doc' = IF doc.fault = [call |-> "getPage", at |-> doc.i]
            THEN Settle([doc EXCEPT !.calls = Append(@, Failed("getPage", doc.i))],
                        Caught(doc.kind))
            ELSE [doc EXCEPT !.pc = "processPageText", !.read = Append(@, doc.i),
                             !.calls = @ \o <<Completed("getPage", doc.i),
                                              Issued("getTextContent", doc.i)>>]
  /\ UNCHANGED <<invocation, peer, viewer, app, db>>

\* await page.getTextContent() settles inside processPageText; the viewport
\* is read and getVisualSignals awaits page.getOperatorList() (lines 138-167
\* and 123)
ReadPage ==
  /\ doc.pc = "processPageText"
  /\ doc' =
       IF doc.fault = [call |-> "getTextContent", at |-> doc.i]
       THEN Settle([doc EXCEPT !.calls = Append(@, Failed("getTextContent", doc.i))],
                   Caught(doc.kind))
       ELSE [doc EXCEPT !.pc = "getVisualSignals",
                        !.calls = @ \o <<Completed("getTextContent", doc.i),
                                         Issued("getViewport", doc.i),
                                         Completed("getViewport", doc.i),
                                         Issued("getOperatorList", doc.i)>>]
  /\ UNCHANGED <<invocation, peer, viewer, app, db>>

\* await page.getOperatorList() and with it await processPageText(page)
\* settle (lines 267-271 and 290)
ProcessPage ==
  /\ doc.pc = "getVisualSignals"
  /\ LET listed == [doc EXCEPT !.calls = Append(@, Completed("getOperatorList", doc.i))]
     IN doc' =
          IF doc.kind = "page" THEN Settle(listed, Resolved(DocPageText(doc.i)))
          ELSE LET d == [listed EXCEPT
                           !.fullText = @ \o PageMarker(doc.i) \o DocPageText(doc.i),
                           !.calls = Append(@, Completed("append", doc.i))]
               IN IF NextPageNumber(doc.i) <= maxPagesOf(doc.numPages)
                  THEN RequestPage(d, NextPageNumber(doc.i))
                  ELSE Settle(d, Resolved(d.fullText))
  /\ UNCHANGED <<invocation, peer, viewer, app, db>>

NextDocument == OpenDocument \/ GetPage \/ ReadPage \/ ProcessPage

SpecDocument == InitDocument /\ [][NextDocument]_vars

-----------------------------------------------------------------------------
(* The highlight effect of PDFViewer (components/PDFViewer.tsx:94-195).     *)
(* A character outside ASCII is written by its code point, "U+4E2D".       *)

Alphabet == <<"a","b","c","d","e","f","g","h","i","j","k","l","m",
              "n","o","p","q","r","s","t","u","v","w","x","y","z">>
Capitals == <<"A","B","C","D","E","F","G","H","I","J","K","L","M",
              "N","O","P","Q","R","S","T","U","V","W","X","Y","Z">>

\* the name of the character with code point n, of four hexadecimal digits
HexDigits == <<"0", "1", "2", "3", "4", "5", "6", "7", "8", "9", "A", "B", "C", "D", "E", "F">>
HexDigit(n) == HexDigits[(n % 16) + 1]
CodePoint(n) ==
  "U+" \o HexDigit(n \div 4096) \o HexDigit(n \div 256) \o HexDigit(n \div 16) \o HexDigit(n)

\* the characters of the range \u4e00-\u9fa5
CJK == {CodePoint(n) : n \in 19968..40869}

\* /[a-zA-Z0-9\u4e00-\u9fa5]/.test(char)
IsAnchorChar(c) == c \in LowerCase \/ c \in UpperCase \/ c \in Digits \/ c \in CJK

\* char.toLowerCase()
ToLowerCase(c) ==
  IF c \in UpperCase
  THEN Alphabet[CHOOSE i \in 1..Len(Capitals) : Capitals[i] = c]
  ELSE c

\* the mapping entries of text node number n (lines 118-124); index counts
\* from 0 as in the source
NodeMapping(str, n) ==
  LET kept == SelectSeq([i \in 1..Len(str) |-> i - 1],
                        LAMBDA i : IsAnchorChar(str[i + 1]))
  IN [k \in 1..Len(kept) |-> [node |-> n, index |-> kept[k]]]

RECURSIVE PageMapping(_, _)
\* const mapping, over the text nodes from number n on (lines 114-125)
PageMapping(textNodes, n) ==
  IF n > Len(textNodes) THEN <<>>
  ELSE NodeMapping(textNodes[n], n) \o PageMapping(textNodes, n + 1)

\* let normalizedPdfText (lines 113-125)
normalizedPdfText(textNodes) ==
  LET mapping == PageMapping(textNodes, 1)
  IN [k \in 1..Len(mapping) |->
        ToLowerCase(textNodes[mapping[k].node][mapping[k].index + 1])]

\* highlightText.replace(/[^a-zA-Z0-9\u4e00-\u9fa5]/g, '').toLowerCase()
cleanQueryOf(highlightText) ==
  LET kept == SelectSeq(highlightText, IsAnchorChar)
  IN [k \in 1..Len(kept) |-> ToLowerCase(kept[k])]

\* String.prototype.slice(from) and slice(0, to)
SliceFrom(str, from) == SubSeq(str, from + 1, Len(str))
SliceTo(str, to) == SubSeq(str, 1, Min(to, Len(str)))

\* a variation of searchKeyOf: the whole fragment is the anchor
searchKeyOf_whole(cleanQuery) == cleanQuery

\* const searchKey = cleanQuery.slice(0, 50)
searchKeyOf(cleanQuery) == SliceTo(cleanQuery, 50)

\* String.prototype.indexOf: the index from 0 of the first occurrence, or -1
IndexOf(str, sub) ==
  LET hits == {i \in 0..(Len(str) - Len(sub)) : SubSeq(str, i + 1, i + Len(sub)) = sub}
  IN IF hits = {} THEN 0 - 1 ELSE CHOOSE i \in hits : \A j \in hits : i <= j

\* startIndex of lines 135-138
startIndexOf(pdfText, searchKey) ==
  LET first == IndexOf(pdfText, searchKey)
  IN IF first = 0 - 1 /\ Len(searchKey) > 10
     THEN IndexOf(pdfText, SliceFrom(searchKey, 5))
     ELSE first

MaxNodes == 2   \* text nodes of a page

\* the first n characters of pattern repeated
Cycle(pattern, n) == [i \in 1..n |-> pattern[((i - 1) % Len(pattern)) + 1]]

\* the text nodes of the text layer: a long one of 60 anchor characters,
\* two short ones, an empty one
NodePool ==
  << Cycle(<<"A", "b", "-", "1", " ">>, 100),
     <<"A", "b", "-", "c">>,
     <<"1", " ", "U+4E2D", "U+3042">>,
     <<>> >>

TextLayers ==
  UNION {{[k \in 1..n |-> NodePool[f[k]]] : f \in [1..n -> 1..Len(NodePool)]} :
           n \in 0..MaxNodes}

\* the fragments asked for on a page: pieces of its text, and a text that
\* is not on the page ...
Pieces(text) ==
  {SubSeq(text, from, Min(from + len - 1, Len(text))) : from \in {1, 3}, len \in {2, 4, 8, 95}}
    \cup {<<"q", "q", "q">>}

\* ... as they are, in other case, followed by other text, or behind five
\* characters that are not on the page
Fragments(text) ==
  UNION {{piece,
          [k \in 1..Len(piece) |-> IF piece[k] = "b" THEN "B" ELSE piece[k]],
          piece \o <<" ", "q", "Q">>,
          <<"q", "q", "q", "q", "q">> \o piece} : piece \in Pieces(text)}

InitViewer ==
  /\ \E nodes \in TextLayers :
       \E fragment \in Fragments(Join(nodes, <<>>)) :
         \E ready \in BOOLEAN :
           viewer = [pc |-> "effect", textNodes |-> nodes, highlightText |-> fragment,
                     textLayerReady |-> ready, highlights |-> "stale",
                     searchKey |-> <<>>, startIndex |-> 0 - 1, endIndex |-> 0 - 1,
                     range |-> <<>>]
  /\ items = <<>> /\ operatorList = NoOperators
  /\ pageWidth = PageSize.width
  /\ pageHeight = PageSize.height
  /\ variant = "pdfUtils"
  /\ run = 1
  /\ firstResult = NoResult
  /\ Idle
  /\ peer = NoPeer /\ doc = NoDocument
  /\ app = NoApp /\ db = NoStore

\* the effect body (lines 95-98 and 192): clear the highlights, or set the
\* timer for calculateHighlights
HighlightEffect ==
  /\ viewer.pc = "effect"
  /\ viewer' = IF Len(viewer.highlightText) < 3 \/ ~viewer.textLayerReady
               THEN [viewer EXCEPT !.pc = "done", !.highlights = "cleared"]
               ELSE [viewer EXCEPT !.pc = "timer"]
  /\ UNCHANGED <<invocation, peer, doc, app, db>>

\* the timer fires: calculateHighlights (lines 100-190)
CalculateHighlights ==
  /\ viewer.pc = "timer"
  /\ LET mapping == PageMapping(viewer.textNodes, 1)
         pdfText == normalizedPdfText(viewer.textNodes)
         cleanQuery == cleanQueryOf(viewer.highlightText)
         searchKey == searchKeyOf(cleanQuery)
         startIndex == startIndexOf(pdfText, searchKey)
         endIndex == Min(startIndex + Len(cleanQuery) - 1, Len(mapping) - 1)
     IN viewer' =
          IF Len(viewer.textNodes) = 0 THEN [viewer EXCEPT !.pc = "done"]
          ELSE IF Len(searchKey) < 3
          THEN [viewer EXCEPT !.pc = "done", !.searchKey = searchKey]
          ELSE IF startIndex = 0 - 1
          THEN [viewer EXCEPT !.pc = "done", !.searchKey = searchKey,
                              !.highlights = "cleared"]
          ELSE [viewer EXCEPT
                  !.pc = "done", !.searchKey = searchKey, !.highlights = "set",
                  !.startIndex = startIndex, !.endIndex = endIndex,
                  !.range = << mapping[startIndex + 1].node, mapping[startIndex + 1].index,
                               mapping[endIndex + 1].node, mapping[endIndex + 1].index + 1 >>]
  /\ UNCHANGED <<invocation, peer, doc, app, db>>

NextViewer == HighlightEffect \/ CalculateHighlights

SpecViewer == InitViewer /\ [][NextViewer]_vars

-----------------------------------------------------------------------------
(* The stores of utils/storage (src/unnamed/part_004).  A store is the set  *)
(* of its records; the key of a record of translations is its id.          *)

\* `${name}_${file.size}_${lastModified}`
generateFingerprint(file) ==
  file.name \o <<"_">> \o Decimal(file.size) \o <<"_">> \o Decimal(file.lastModified)

\* const id = `${fingerprint}_${pageNumber}`
TranslationId(fingerprint, pageNumber) == fingerprint \o <<"_">> \o Decimal(pageNumber)

\* IDBObjectStore.put and delete on a store with key path key
StorePut(store, key, record) == {r \in store : r[key] # record[key]} \cup {record}
StoreDelete(store, key, value) == {r \in store : r[key] # value}

\* null and undefined
Null == [null |-> TRUE]
Undefined == [undefined |-> TRUE]

\* db.put('translations', { id, fingerprint, pageNumber, data, createdAt })
savePageTranslation(stores, fingerprint, pageNumber, data) ==
  [stores EXCEPT !.translations =
     StorePut(@, "id", [id |-> TranslationId(fingerprint, pageNumber),
                        fingerprint |-> fingerprint,
                        pageNumber |-> pageNumber, data |-> data])]

\* record ? record.data : null
getPageTranslation(stores, fingerprint, pageNumber) ==
  LET found == {r \in stores.translations : r.id = TranslationId(fingerprint, pageNumber)}
  IN IF found = {} THEN Null ELSE (CHOOSE r \in found : TRUE).data

\* db.delete('translations', `${fingerprint}_${pageNumber}`)
deletePageTranslation(stores, fingerprint, pageNumber) ==
  [stores EXCEPT !.translations = StoreDelete(@, "id", TranslationId(fingerprint, pageNumber))]

\* IndexedDB starts the transactions on one object store in the order in
\* which they were made, a readwrite transaction alone and readonly
\* transactions together.  A writing request is done when it is at the
\* front of the queue of the store: the front is one of call, at its step op
AtFront(queue, call, op) ==
  /\ Len(queue) > 0
  /\ Head(queue).call = call
  /\ Head(queue).op = op

\* the requests that read: db.get of the operations and of
\* getPageTranslation
ReadOnly(request) == request.op \in {"db.get", "getPageTranslation"}

\* a reading request is done once every request made before it reads too,
\* whether or not those are done: the k-th of the queue can be done
CanRead(queue, k) ==
  /\ k \in 1..Len(queue)
  /\ \A j \in 1..k : ReadOnly(queue[j])

\* the queue without its k-th request
Answered(queue, k) == SubSeq(queue, 1, k - 1) \o SubSeq(queue, k + 1, Len(queue))

-----------------------------------------------------------------------------
(* The page translation logic of App (App.tsx:367-502, 626-636, 756-767)   *)
(* and translatePageContent (services/geminiService.ts:203-250).  A        *)
(* loadTranslation run advances from one await to the next.  A call of    *)
(* utils/storage makes its request in the step in which it is called (the  *)
(* database is open and await getDB() resolves in the same turn); a write  *)
(* is done at the front of the queue of its store, a read once no write    *)
(* is ahead of it.                                                         *)
(* Chinese text is written in English inside quotes.                       *)

MaxRuns == 2   \* loadTranslation runs that get past the early returns
MaxEvents == 3 \* events of the user: a file picked, a page change, Retry, reset

\* the files the user can pick; content stands for the bytes of the file
AppFiles ==
  {[name |-> <<"a">>, size |-> 1, lastModified |-> 2, content |-> "A"],
   [name |-> <<"b">>, size |-> 1, lastModified |-> 2, content |-> "B"]}

AppPages == {1, 2}

\* what extractPageText resolves to for a page of file: the page text, of
\* 20 characters or more except on page 2 of file b, where it is ""
PageTextOf(file, pageNum) ==
  [content |-> file.content, long |-> ~(file.name = <<"b">> /\ pageNum = 2)]

\* the block of the catch of translatePageContent (geminiService.ts:246)
ErrorBlock == [en |-> <<"Error">>, cn |-> <<"AI parse failed", "recast">>]

\* a block whose cn holds the mark "AI format error" that lines 439-441 and
\* 464-466 of App.tsx look for
FormatErrorBlock == [en |-> <<"text">>, cn |-> <<"notice", "AI format error">>]

\* a block that translates text of the file with the given content
TextBlock(content) == [en |-> <<content, "text">>, cn |-> <<content, "translation">>]

\* a block of the answer without cn, and a block with en "Error" that
\* follows a translated block
BareBlock(content) == [en |-> <<content, "text">>]
ErrorNote == [en |-> <<"Error">>, cn |-> <<"x">>]

\* what the proxy answers: it rejects or the answer does not parse, or the
\* answer parses to data: without blocks, or with a list of blocks
Replies(content) ==
  {[rejects |-> TRUE, data |-> [glossary |-> <<>>]],
   [rejects |-> FALSE, data |-> [glossary |-> <<>>]]}
    \cup {[rejects |-> FALSE, data |-> [blocks |-> b, glossary |-> <<>>]] :
            b \in {<<FormatErrorBlock>>, <<TextBlock(content)>>, <<BareBlock(content)>>,
                   <<TextBlock(content), ErrorNote>>}}

\* translatePageContent(pageText) when the proxy answers reply; the text of
\* a page is [content, long], long when it has 20 characters or more
translatePageContent(pageText, reply) ==
  IF ~pageText.long THEN [pageNumber |-> 0, blocks |-> <<>>, source |-> pageText.content]
  ELSE IF reply.rejects
  THEN [pageNumber |-> 0, blocks |-> <<ErrorBlock>>, source |-> pageText.content]
  ELSE [pageNumber |-> 0,
        blocks |-> IF "blocks" \in DOMAIN reply.data THEN reply.data.blocks ELSE <<>>,
        source |-> pageText.content]

\* cn.includes("AI format error")
IncludesFormatError(cn) == \E k \in 1..Len(cn) : cn[k] = "AI format error"

\* const isInvalidCache (App.tsx:439-441)
isInvalidCache(cachedTrans) ==
  /\ cachedTrans # Null
  /\ Len(cachedTrans.blocks) = 1
  /\ (cachedTrans.blocks[1].en = <<"Error">> \/ IncludesFormatError(cachedTrans.blocks[1].cn))

\* a variation of isSuccess: every result counts as a success
isSuccess_always(newTrans) == TRUE

\* const isSuccess (App.tsx:464-466)
isSuccess(newTrans) ==
  /\ Len(newTrans.blocks) > 0
  /\ newTrans.blocks[1].en # <<"Error">>
  /\ ~IncludesFormatError(newTrans.blocks[1].cn)

\* the evaluation of isSuccess reads cn.includes of a block without cn and
\* throws a TypeError
isSuccessThrows(newTrans) ==
  /\ Len(newTrans.blocks) > 0
  /\ newTrans.blocks[1].en # <<"Error">>
  /\ "cn" \notin DOMAIN newTrans.blocks[1]

\* new Map(prev).set(pageNum, value) and the delete of line 764; a map is
\* the set of its entries
MapSet(map, key, value) == {e \in map : e.key # key} \cup {[key |-> key, value |-> value]}
MapDelete(map, key) == {e \in map : e.key # key}
MapHas(map, key) == \E e \in map : e.key = key

\* what the translations store holds when the app starts: nothing, or an
\* error notice cached for page 1 of file a
StoredBefore ==
  LET a == CHOOSE f \in AppFiles : f.name = <<"a">>
      stored(blocks) ==
        {[id |-> TranslationId(generateFingerprint(a), 1),
          fingerprint |-> generateFingerprint(a), pageNumber |-> 1,
          data |-> [pageNumber |-> 1, blocks |-> blocks, source |-> a.content]]}
  IN {{}, stored(<<ErrorBlock>>)}

\* no Retry was clicked; requested tells whether extractPageText has been
\* called for the page since its Retry was done
NoRetry == [pc |-> "idle", fileFingerprint |-> Null, pageNum |-> 0, requested |-> FALSE]

\* the runs in flight are a bag of run records: a run has no identity
\* beyond its local variables
Without(runs, this) == runs (-) SetToBag({this})
With(runs, this) == runs (+) SetToBag({this})

\* the record of the session store, as saveActiveSession puts it
\* (src/unnamed/part_005:272-280)
SessionOf(file, fingerprint, currentPage) ==
  [file |-> file, fingerprint |-> fingerprint, currentPage |-> currentPage]

\* what the session store holds when the app starts: nothing, or the
\* session of file b on page 2
SessionBefore ==
  LET b == CHOOSE f \in AppFiles : f.name = <<"b">>
  IN {Null, SessionOf(b, generateFingerprint(b), 2)}

InitApp ==
  /\ app = [pc |-> "mounted", mode |-> "UPLOAD", file |-> Null, fileFingerprint |-> Null,
            currentPage |-> 1, debouncedPage |-> 1, pageTranslations |-> {},
            isTranslatingPage |-> FALSE, effectPending |-> FALSE,
            runs |-> EmptyBag, started |-> 0, retry |-> NoRetry,
            restore |-> "getActiveSession", sessionTimer |-> Null,
            opens |-> EmptyBag, events |-> 0]
  /\ \E stored \in StoredBefore, session \in SessionBefore :
       db = [pc |-> "open", translations |-> stored, session |-> session,
             sessionQueue |-> <<[call |-> "restoreSession", op |-> "db.get"]>>,
             translationsQueue |-> <<>>]
  /\ items = <<>> /\ operatorList = NoOperators
  /\ pageWidth = PageSize.width
  /\ pageHeight = PageSize.height
  /\ variant = "pdfUtils"
  /\ run = 1
  /\ firstResult = NoResult
  /\ Idle
  /\ peer = NoPeer /\ doc = NoDocument /\ viewer = NoViewer

\* restoreSession of the mount effect: await getActiveSession() settles
\* (App.tsx:367-391); what follows the await of getSummary sets the summary
RestoreSession ==
  /\ app.pc = "mounted" /\ app.restore = "getActiveSession"
  /\ AtFront(db.sessionQueue, "restoreSession", "db.get")
  /\ db' = [db EXCEPT !.sessionQueue = Tail(@)]
  /\ app' = IF db.session = Null
            THEN [app EXCEPT !.restore = "done"]
            ELSE [app EXCEPT !.restore = "done",
                             !.file = db.session.file,
                             !.fileFingerprint = db.session.fingerprint,
                             !.currentPage = db.session.currentPage,
                             !.debouncedPage = db.session.currentPage,
                             !.mode = "READING",
                             !.effectPending = TRUE]
  /\ UNCHANGED <<invocation, peer, doc, viewer>>

\* the timer of the session effect fires: saveActiveSession(file,
\* fileFingerprint, debouncedPage) is called with the values of the render
\* that set it and makes its put (App.tsx:409-416)
SaveSession ==
  /\ app.pc = "mounted" /\ app.sessionTimer # Null
  /\ db' = [db EXCEPT !.sessionQueue =
              Append(@, [call |-> "saveActiveSession", op |-> "db.put",
                         record |-> app.sessionTimer])]
  /\ app' = [app EXCEPT !.sessionTimer = Null]
  /\ UNCHANGED <<invocation, peer, doc, viewer>>

\* await db.put('session', {...}) of saveActiveSession settles
\* (src/unnamed/part_005:272-280)
SaveActiveSession ==
  /\ app.pc = "mounted" /\ AtFront(db.sessionQueue, "saveActiveSession", "db.put")
  /\ db' = [db EXCEPT !.session = Head(db.sessionQueue).record,
                      !.sessionQueue = Tail(@)]
  /\ UNCHANGED <<invocation, peer, doc, viewer, app>>

\* a file is picked in the file input, which is rendered in UPLOAD mode
\* (line 663): handleFileChange up to await fileToBase64 (App.tsx:484-487).
\* Awaits that follow one another with no shared state read or written in
\* between are one wait of the call.
HandleFileChange ==
  /\ app.pc = "mounted" /\ app.mode = "UPLOAD" /\ app.events < MaxEvents
  /\ \E selectedFile \in AppFiles :
       app' = [app EXCEPT !.events = @ + 1,
                          !.opens = With(@, [pc |-> "fileToBase64",
                                             selectedFile |-> selectedFile])]
  /\ UNCHANGED <<invocation, peer, doc, viewer, db>>

\* await fileToBase64 and await generateFingerprint have settled: lines
\* 490-502 of handleFileChange.  The call goes on with the summary of the
\* paper (lines 504-530), which is not part of this model: it reads and
\* writes the summary state and the files store only.
OpenFile ==
  \E this \in BagToSet(app.opens) :
    /\ this.pc = "fileToBase64"
    /\ app' = [app EXCEPT
                 !.opens = Without(@, this),
                 !.fileFingerprint = generateFingerprint(this.selectedFile),
                 !.file = this.selectedFile,
                 !.mode = "READING",
                 !.currentPage = 1,
                 !.debouncedPage = 1,
                 !.effectPending = TRUE]
    /\ UNCHANGED <<invocation, peer, doc, viewer, db>>

\* onPageChange={setCurrentPage} (App.tsx:734)
ChangePage ==
  /\ app.pc = "mounted" /\ app.mode = "READING" /\ app.events < MaxEvents
  /\ \E p \in AppPages \ {app.currentPage} :
       app' = [app EXCEPT !.currentPage = p, !.events = @ + 1]
  /\ UNCHANGED <<invocation, peer, doc, viewer, db>>

\* the timer of the debounce effect fires: setDebouncedPage(currentPage)
\* (App.tsx:419-424)
Debounce ==
  /\ app.pc = "mounted" /\ app.debouncedPage # app.currentPage
  /\ app' = [app EXCEPT !.debouncedPage = app.currentPage, !.effectPending = TRUE]
  /\ UNCHANGED <<invocation, peer, doc, viewer, db>>

\* the timer that the session effect sets after a render that changed file,
\* fileFingerprint or debouncedPage, its cleanup having cleared the one
\* before (App.tsx:409-416)
SessionTimer ==
  IF app.file # Null /\ app.fileFingerprint # Null
  THEN SessionOf(app.file, app.fileFingerprint, app.debouncedPage)
  ELSE Null

\* a request of a loadTranslation run on the translations store
RunRequest(this) == [call |-> "loadTranslation", op |-> this.pc, run |-> this]

\* the effects run after a render that changed debouncedPage,
\* fileFingerprint, mode or file: the session effect, and loadTranslation
\* up to its first await, where the get of getPageTranslation is made
\* (App.tsx:427-482)
LoadTranslation ==
  /\ app.pc = "mounted" /\ app.effectPending
  /\ IF \/ app.mode # "READING" \/ app.file = Null \/ app.fileFingerprint = Null
        \/ MapHas(app.pageTranslations, app.debouncedPage)
     THEN /\ app' = [app EXCEPT !.effectPending = FALSE, !.sessionTimer = SessionTimer]
          /\ db' = db
     ELSE /\ app.started < MaxRuns
          /\ LET this == [pc |-> "getPageTranslation", file |-> app.file,
                          fileFingerprint |-> app.fileFingerprint,
                          pageNum |-> app.debouncedPage,
                          pageText |-> Null, newTrans |-> Null]
             IN /\ app' = [app EXCEPT
                             !.effectPending = FALSE,
                             !.sessionTimer = SessionTimer,
                             !.started = @ + 1,
                             !.isTranslatingPage = TRUE,
                             !.runs = With(@, this)]
                /\ db' = [db EXCEPT !.translationsQueue = Append(@, RunRequest(this))]
  /\ UNCHANGED <<invocation, peer, doc, viewer>>

\* the run ends: finally { setIsTranslatingPage(false) }
Finish(a, this) == [a EXCEPT !.runs = Without(@, this), !.isTranslatingPage = FALSE]

\* the run goes on to its next await
Advance(a, this, next) == [a EXCEPT !.runs = With(Without(@, this), next)]

\* setPageTranslations(prev => new Map(prev).set(pageNum, value))
SetTranslation(a, pageNum, value) ==
  [a EXCEPT !.pageTranslations = MapSet(@, pageNum, value)]

\* the run calls extractPageText(file.base64, pageNum)
CallExtract(a, this) ==
  [Advance(a, this, [this EXCEPT !.pc = "extractPageText"]) EXCEPT
     !.retry.requested = @ \/ (a.retry.pc = "done" /\ a.retry.pageNum = this.pageNum)]

\* await getPageTranslation settles (App.tsx:437-455)
GetCached ==
  \E this \in BagToSet(app.runs) :
    /\ this.pc = "getPageTranslation"
    /\ \E k \in 1..Len(db.translationsQueue) :
         /\ CanRead(db.translationsQueue, k) /\ db.translationsQueue[k] = RunRequest(this)
         /\ LET cachedTrans == getPageTranslation(db, this.fileFingerprint, this.pageNum)
                deleting == [this EXCEPT !.pc = "deletePageTranslation"]
            IN IF cachedTrans # Null /\ ~isInvalidCache(cachedTrans)
               THEN /\ app' = Finish(SetTranslation(app, this.pageNum, cachedTrans), this)
                    /\ db' = [db EXCEPT !.translationsQueue = Answered(@, k)]
               ELSE IF isInvalidCache(cachedTrans)
               THEN /\ app' = Advance(app, this, deleting)
                    /\ db' = [db EXCEPT !.translationsQueue =
                                Append(Answered(@, k), RunRequest(deleting))]
               ELSE /\ app' = CallExtract(app, this)
                    /\ db' = [db EXCEPT !.translationsQueue = Answered(@, k)]
    /\ UNCHANGED <<invocation, peer, doc, viewer>>

\* await deletePageTranslation settles (App.tsx:451-455)
DeleteInvalid ==
  \E this \in BagToSet(app.runs) :
    /\ this.pc = "deletePageTranslation"
    /\ Len(db.translationsQueue) > 0 /\ Head(db.translationsQueue) = RunRequest(this)
    /\ db' = [deletePageTranslation(db, this.fileFingerprint, this.pageNum)
                EXCEPT !.translationsQueue = Tail(@)]
    /\ app' = CallExtract(app, this)
    /\ UNCHANGED <<invocation, peer, doc, viewer>>

\* await extractPageText settles (App.tsx:455-457)
ExtractPage ==
  \E this \in BagToSet(app.runs) :
    /\ this.pc = "extractPageText"
    /\ app' = Advance(app, this, [this EXCEPT !.pc = "translatePageContent",
                                              !.pageText = PageTextOf(this.file, this.pageNum)])
    /\ UNCHANGED <<invocation, peer, doc, viewer, db>>

\* await translatePageContent settles (App.tsx:457-478)
Translate ==
  \E this \in BagToSet(app.runs) :
    /\ this.pc = "translatePageContent"
    /\ \E reply \in Replies(this.pageText.content) :
         LET newTrans == [translatePageContent(this.pageText, reply) EXCEPT
                            !.pageNumber = this.pageNum]
             saving == [this EXCEPT !.pc = "savePageTranslation", !.newTrans = newTrans]
         IN IF isSuccessThrows(newTrans)
            THEN app' = Finish(app, this) /\ db' = db
            ELSE IF isSuccess(newTrans)
            THEN /\ app' = Advance(app, this, saving)
                 /\ db' = [db EXCEPT !.translationsQueue = Append(@, RunRequest(saving))]
            ELSE /\ app' = Finish(SetTranslation(app, this.pageNum, newTrans), this)
                 /\ db' = db
    /\ UNCHANGED <<invocation, peer, doc, viewer>>

\* await savePageTranslation settles (App.tsx:468-478)
SaveTranslation ==
  \E this \in BagToSet(app.runs) :
    /\ this.pc = "savePageTranslation"
    /\ Len(db.translationsQueue) > 0 /\ Head(db.translationsQueue) = RunRequest(this)
    /\ db' = [savePageTranslation(db, this.fileFingerprint, this.pageNum, this.newTrans)
                EXCEPT !.translationsQueue = Tail(@)]
    /\ app' = Finish(SetTranslation(app, this.pageNum, this.newTrans), this)
    /\ UNCHANGED <<invocation, peer, doc, viewer>>

\* onRetry is clicked and calls deletePageTranslation (App.tsx:756-760); the
\* buttons are rendered when isLoading is false
RetryClick ==
  /\ app.pc = "mounted" /\ app.mode = "READING" /\ ~app.isTranslatingPage
  /\ app.retry = NoRetry /\ app.events < MaxEvents
  /\ app' = [app EXCEPT !.events = @ + 1,
                        !.retry = [pc |-> "deletePageTranslation",
                                    fileFingerprint |-> app.fileFingerprint,
                                    pageNum |-> app.debouncedPage,
                                    requested |-> FALSE]]
  /\ db' = [db EXCEPT !.translationsQueue =
              Append(@, [call |-> "onRetry", op |-> "deletePageTranslation"])]
  /\ UNCHANGED <<invocation, peer, doc, viewer>>

\* await deletePageTranslation settles; setPageTranslations removes the
\* page (App.tsx:758-766)
RetryClear ==
  /\ app.retry.pc = "deletePageTranslation"
  /\ AtFront(db.translationsQueue, "onRetry", "deletePageTranslation")
  /\ db' = [deletePageTranslation(db, app.retry.fileFingerprint, app.retry.pageNum)
              EXCEPT !.translationsQueue = Tail(@)]
  /\ app' = [app EXCEPT !.pageTranslations = MapDelete(@, app.retry.pageNum),
                        !.retry.pc = "done"]
  /\ UNCHANGED <<invocation, peer, doc, viewer>>

\* the reset button, rendered in READING mode (line 723), is clicked:
\* resetApp up to await clearActiveSession(), whose delete is made
\* (App.tsx:626-627)
ResetClick ==
  /\ app.pc = "mounted" /\ app.mode = "READING" /\ app.events < MaxEvents
  /\ app' = [app EXCEPT !.events = @ + 1]
  /\ db' = [db EXCEPT !.sessionQueue = Append(@, [call |-> "resetApp", op |-> "db.delete"])]
  /\ UNCHANGED <<invocation, peer, doc, viewer>>

\* await clearActiveSession() settles and resetApp goes on
\* (App.tsx:627-635)
ResetApp ==
  /\ app.pc = "mounted" /\ AtFront(db.sessionQueue, "resetApp", "db.delete")
  /\ db' = [db EXCEPT !.session = Null, !.sessionQueue = Tail(@)]
  /\ app' = [app EXCEPT !.file = Null, !.fileFingerprint = Null, !.mode = "UPLOAD",
                        !.pageTranslations = {},
                        !.currentPage = 1, !.debouncedPage = 1,
                        !.effectPending = TRUE]
  /\ UNCHANGED <<invocation, peer, doc, viewer>>

\* the steps React, the timers and the pending promises take by themselves
AppSteps ==
  \/ RestoreSession
  \/ SaveSession
  \/ SaveActiveSession
  \/ OpenFile
  \/ Debounce
  \/ LoadTranslation
  \/ GetCached
  \/ DeleteInvalid
  \/ ExtractPage
  \/ Translate
  \/ SaveTranslation
  \/ RetryClear
  \/ ResetApp

\* the steps of the user
UserSteps == HandleFileChange \/ ChangePage \/ RetryClick \/ ResetClick

NextApp == AppSteps \/ UserSteps

SpecApp == InitApp /\ [][NextApp]_vars

-----------------------------------------------------------------------------
(* The history operations of utils/storage (src/unnamed/part_004): callers *)
(* save, update and delete files and page translations while               *)
(* deleteFromHistory runs, one await at a time.  IndexedDB does the        *)
(* requests on one object store in the order in which their transactions   *)
(* were made, reads together: each store has a queue, a call adds its      *)
(* request at the end, a write is done at the front and a read once no     *)
(* write is ahead of it.  await getDB()                                    *)
(* resolves in the turn of the call once the database is open, so a call   *)
(* makes its first request in the step in which it is called.  One call    *)
(* of deleteFromHistory is followed at a time.  The time stamps of the     *)
(* records are left out.                                                   *)

MaxCalls == 4  \* calls of the operations in a run

StorageFiles == AppFiles
StoragePages == {1, 2}

\* the summary argument of saveFileToHistory, of updateSummaryInHistory
Summaries == {Undefined, [title |-> "summary"]}
NewSummaries == {[title |-> "summary"], [title |-> "revised"]}

\* the data saved for a page of file
PageData(file, pageNumber) ==
  [pageNumber |-> pageNumber, blocks |-> <<TextBlock(file.content)>>, source |-> file.content]

\* the order of keys: strings compare by their code units
KeyChars == <<"0", "1", "2", "3", "4", "5", "6", "7", "8", "9", "_", "a", "b">>
CodeUnit(c) == CHOOSE k \in 1..Len(KeyChars) : KeyChars[k] = c
KeyLess(s, t) ==
  \E k \in 1..(Len(t)) :
    /\ \A j \in 1..(k - 1) : j <= Len(s) /\ s[j] = t[j]
    /\ \/ k = Len(s) + 1
       \/ k <= Len(s) /\ CodeUnit(s[k]) < CodeUnit(t[k])

\* IDBKeyRange.only(value) holds key
IDBKeyRangeOnly(value, key) == key = value

\* the position of a record in the index by-fingerprint: the index key,
\* then the primary key
IndexLess(r, q) ==
  \/ KeyLess(r.fingerprint, q.fingerprint)
  \/ r.fingerprint = q.fingerprint /\ KeyLess(r.id, q.id)

\* index.openCursor(IDBKeyRange.only(fingerprint)) when after is Null and
\* cursor.continue() from the record after: the next record of the range
\* in the order of the index, or null
CursorNext(store, fingerprint, after) ==
  LET ahead == {r \in store : /\ IDBKeyRangeOnly(fingerprint, r.fingerprint)
                              /\ after # Null => IndexLess(after, r)}
  IN IF ahead = {} THEN Null
     ELSE CHOOSE r \in ahead : \A q \in ahead \ {r} : IndexLess(r, q)

\* the record that saveFileToHistory puts (part_004:89-100)
FileRecord(fingerprint, file, summary, existing) ==
  [fingerprint |-> fingerprint, name |-> file.name,
   summary |-> IF summary # Undefined THEN summary
               ELSE IF existing # Undefined THEN existing.summary ELSE Null]

\* db.get('files', fingerprint)
getFileFromHistory(stores, fingerprint) ==
  LET found == {r \in stores.files : r.fingerprint = fingerprint}
  IN IF found = {} THEN Undefined ELSE CHOOSE r \in found : TRUE

\* no call of deleteFromHistory; deleted counts the records the cursor has
\* deleted in the call
NoDelete == [pc |-> "idle", fingerprint |-> <<>>, cursor |-> Null, deleted |-> 0, hadFile |-> FALSE]

InitStorage ==
  /\ db = [pc |-> "open", files |-> {}, translations |-> {}, deleting |-> NoDelete,
           filesQueue |-> <<>>, translationsQueue |-> <<>>, calls |-> 0]
  /\ app = NoApp
  /\ items = <<>> /\ operatorList = NoOperators
  /\ pageWidth = PageSize.width
  /\ pageHeight = PageSize.height
  /\ variant = "pdfUtils"
  /\ run = 1
  /\ firstResult = NoResult
  /\ Idle
  /\ peer = NoPeer /\ doc = NoDocument /\ viewer = NoViewer

\* savePageTranslation(fingerprint, pageNumber, data) is called and makes
\* its put (part_004:147-150)
SavePageTranslation ==
  /\ db.pc = "open" /\ db.calls < MaxCalls
  /\ \E file \in StorageFiles, pageNumber \in StoragePages :
       db' = [db EXCEPT !.calls = @ + 1, !.translationsQueue =
                Append(@, [call |-> "savePageTranslation", op |-> "db.put",
                           fingerprint |-> generateFingerprint(file),
                           pageNumber |-> pageNumber,
                           data |-> PageData(file, pageNumber)])]
  /\ UNCHANGED <<invocation, peer, doc, viewer, app>>

\* await db.put('translations', {...}) settles (part_004:150-151)
SavePagePut ==
  /\ db.pc = "open" /\ AtFront(db.translationsQueue, "savePageTranslation", "db.put")
  /\ LET this == Head(db.translationsQueue)
     IN db' = [savePageTranslation(db, this.fingerprint, this.pageNumber, this.data)
                 EXCEPT !.translationsQueue = Tail(@)]
  /\ UNCHANGED <<invocation, peer, doc, viewer, app>>

\* deletePageTranslation(fingerprint, pageNumber) is called and makes its
\* delete (part_004:159-161)
DeletePageTranslation ==
  /\ db.pc = "open" /\ db.calls < MaxCalls
  /\ \E file \in StorageFiles, pageNumber \in StoragePages :
       db' = [db EXCEPT !.calls = @ + 1, !.translationsQueue =
                Append(@, [call |-> "deletePageTranslation", op |-> "db.delete",
                           fingerprint |-> generateFingerprint(file),
                           pageNumber |-> pageNumber])]
  /\ UNCHANGED <<invocation, peer, doc, viewer, app>>

\* await db.delete('translations', id) settles (part_004:161-162)
DeletePageDelete ==
  /\ db.pc = "open" /\ AtFront(db.translationsQueue, "deletePageTranslation", "db.delete")
  /\ LET this == Head(db.translationsQueue)
     IN db' = [deletePageTranslation(db, this.fingerprint, this.pageNumber)
                 EXCEPT !.translationsQueue = Tail(@)]
  /\ UNCHANGED <<invocation, peer, doc, viewer, app>>

\* saveFileToHistory(fingerprint, file, fullText, summary) is called and
\* makes its get (part_004:85-88)
SaveFileToHistory ==
  /\ db.pc = "open" /\ db.calls < MaxCalls
  /\ \E file \in StorageFiles, summary \in Summaries :
       db' = [db EXCEPT !.calls = @ + 1, !.filesQueue =
                Append(@, [call |-> "saveFileToHistory", op |-> "db.get",
                           fingerprint |-> generateFingerprint(file),
                           file |-> file, summary |-> summary,
                           existing |-> Undefined])]
  /\ UNCHANGED <<invocation, peer, doc, viewer, app>>

\* const existing = await db.get('files', fingerprint) settles, before or
\* after the reads made ahead of it, and the put is made (part_004:88-90)
SaveFileGet ==
  /\ db.pc = "open"
  /\ \E k \in 1..Len(db.filesQueue) :
       LET this == db.filesQueue[k]
       IN /\ CanRead(db.filesQueue, k) /\ this.call = "saveFileToHistory"
          /\ db' = [db EXCEPT !.filesQueue =
                      Append(Answered(@, k),
                             [this EXCEPT !.existing = getFileFromHistory(db, this.fingerprint),
                                          !.op = "db.put"])]
  /\ UNCHANGED <<invocation, peer, doc, viewer, app>>

\* await db.put('files', {...}) settles (part_004:90-101)
SaveFilePut ==
  /\ db.pc = "open" /\ AtFront(db.filesQueue, "saveFileToHistory", "db.put")
  /\ LET this == Head(db.filesQueue)
     IN db' = [db EXCEPT !.files = StorePut(@, "fingerprint",
                                             FileRecord(this.fingerprint, this.file,
                                                        this.summary, this.existing)),
                         !.filesQueue = Tail(@)]
  /\ UNCHANGED <<invocation, peer, doc, viewer, app>>

\* updateSummaryInHistory(fingerprint, summary) is called and makes its get
\* (part_004:136-138)
UpdateSummaryInHistory ==
  /\ db.pc = "open" /\ db.calls < MaxCalls
  /\ \E file \in StorageFiles, summary \in NewSummaries :
       db' = [db EXCEPT !.calls = @ + 1, !.filesQueue =
                Append(@, [call |-> "updateSummaryInHistory", op |-> "db.get",
                           fingerprint |-> generateFingerprint(file),
                           summary |-> summary,
                           record |-> Undefined])]
  /\ UNCHANGED <<invocation, peer, doc, viewer, app>>

\* const record = await db.get('files', fingerprint) settles, before or
\* after the reads made ahead of it; with a record its summary is set and
\* the put is made (part_004:138-141)
UpdateSummaryGet ==
  /\ db.pc = "open"
  /\ \E k \in 1..Len(db.filesQueue) :
       LET this == db.filesQueue[k]
           record == getFileFromHistory(db, this.fingerprint)
       IN /\ CanRead(db.filesQueue, k) /\ this.call = "updateSummaryInHistory"
          /\ db' = [db EXCEPT !.filesQueue =
                      IF record # Undefined
                      THEN Append(Answered(@, k),
                                  [this EXCEPT !.record = [record EXCEPT
                                                             !.summary = this.summary],
                                               !.op = "db.put"])
                      ELSE Answered(@, k)]
  /\ UNCHANGED <<invocation, peer, doc, viewer, app>>

\* await db.put('files', record) settles (part_004:141-143)
UpdateSummaryPut ==
  /\ db.pc = "open" /\ AtFront(db.filesQueue, "updateSummaryInHistory", "db.put")
  /\ db' = [db EXCEPT !.files = StorePut(@, "fingerprint", Head(db.filesQueue).record),
                      !.filesQueue = Tail(@)]
  /\ UNCHANGED <<invocation, peer, doc, viewer, app>>

\* deleteFromHistory(fingerprint) is called and makes its delete
\* (part_004:121-123)
DeleteFromHistory ==
  /\ db.pc = "open" /\ db.deleting.pc \in {"idle", "completed"}
  /\ db.calls < MaxCalls
  /\ \E file \in StorageFiles :
       db' = [db EXCEPT !.calls = @ + 1,
                        !.deleting = [NoDelete EXCEPT !.pc = "db.delete",
                                                       !.fingerprint = generateFingerprint(file)],
                        !.filesQueue = Append(@, [call |-> "deleteFromHistory",
                                                  op |-> "db.delete"])]
  /\ UNCHANGED <<invocation, peer, doc, viewer, app>>

\* await db.delete('files', fingerprint) settles; the transaction on
\* translations is made and the cursor asked for (part_004:123-128)
DeleteFile ==
  /\ db.pc = "open" /\ db.deleting.pc = "db.delete"
  /\ AtFront(db.filesQueue, "deleteFromHistory", "db.delete")
  /\ db' = [db EXCEPT !.files = StoreDelete(@, "fingerprint", db.deleting.fingerprint),
                      !.filesQueue = Tail(@),
                      !.translationsQueue = Append(@, [call |-> "deleteFromHistory",
                                                       op |-> "transaction"]),
                      !.deleting.hadFile =
                         getFileFromHistory(db, db.deleting.fingerprint) # Undefined,
                      !.deleting.pc = "openCursor"]
  /\ UNCHANGED <<invocation, peer, doc, viewer, app>>

\* the transaction is at the front of the queue of translations and
\* await index.openCursor(...) settles (part_004:128-129)
OpenCursor ==
  /\ db.pc = "open" /\ db.deleting.pc = "openCursor"
  /\ AtFront(db.translationsQueue, "deleteFromHistory", "transaction")
  /\ LET cursor == CursorNext(db.translations, db.deleting.fingerprint, Null)
     IN db' = [db EXCEPT !.deleting.cursor = cursor,
                         !.deleting.pc = IF cursor # Null THEN "cursor.delete" ELSE "tx.done"]
  /\ UNCHANGED <<invocation, peer, doc, viewer, app>>

\* await cursor.delete() settles (part_004:130)
CursorDelete ==
  /\ db.pc = "open" /\ db.deleting.pc = "cursor.delete"
  /\ db' = [db EXCEPT !.translations = StoreDelete(@, "id", db.deleting.cursor.id),
                      !.deleting.deleted = @ + 1,
                      !.deleting.pc = "cursor.continue"]
  /\ UNCHANGED <<invocation, peer, doc, viewer, app>>

\* cursor = await cursor.continue() settles (part_004:129-131)
CursorContinue ==
  /\ db.pc = "open" /\ db.deleting.pc = "cursor.continue"
  /\ LET cursor == CursorNext(db.translations, db.deleting.fingerprint, db.deleting.cursor)
     IN db' = [db EXCEPT !.deleting.cursor = cursor,
                         !.deleting.pc = IF cursor # Null THEN "cursor.delete" ELSE "tx.done"]
  /\ UNCHANGED <<invocation, peer, doc, viewer, app>>

\* the transaction completes, await tx.done settles and deleteFromHistory
\* returns (part_004:133-134)
TransactionDone ==
  /\ db.pc = "open" /\ db.deleting.pc = "tx.done"
  /\ db' = [db EXCEPT !.deleting.pc = "completed", !.translationsQueue = Tail(@)]
  /\ UNCHANGED <<invocation, peer, doc, viewer, app>>

\* the steps of a deleteFromHistory call
DeleteSteps == DeleteFile \/ OpenCursor \/ CursorDelete \/ CursorContinue \/ TransactionDone

NextStorage ==
  \/ SavePageTranslation
  \/ SavePagePut
  \/ DeletePageTranslation
  \/ DeletePageDelete
  \/ SaveFileToHistory
  \/ SaveFileGet
  \/ SaveFilePut
  \/ UpdateSummaryInHistory
  \/ UpdateSummaryGet
  \/ UpdateSummaryPut
  \/ DeleteFromHistory
  \/ DeleteSteps

SpecStorage == InitStorage /\ [][NextStorage]_vars

-----------------------------------------------------------------------------
(* processPageText of src/unnamed/part_000 (lines 46-149) *)

Ok(text) == [status |-> "ok", text |-> text]
Throws == [status |-> "throw", text |-> <<>>]

\* part_000:52-66: no width is kept
ToItem000(item, h) ==
  [str |-> item.str, x |-> item.tx, y |-> h - item.ty,
   height |-> IF item.height = 0 THEN 10 ELSE item.height, hasEOL |-> item.hasEOL]

RECURSIVE LinesLoop000(_, _, _, _, _)
\* part_000:90-108: lines by a tolerance of 5 around the line's first y,
\* each line sorted by x when it is closed
LinesLoop000(bodyItems, i, currentY, currentLine, lines) ==
  IF i > Len(bodyItems)
  THEN IF Len(currentLine) > 0 THEN Append(lines, ArraySort("x", currentLine)) ELSE lines
  ELSE LET item == bodyItems[i]
       IN IF Abs(item.y - currentY) < 5
          THEN LinesLoop000(bodyItems, i + 1, currentY, Append(currentLine, item), lines)
          ELSE LinesLoop000(bodyItems, i + 1, item.y, <<item>>,
                            Append(lines, ArraySort("x", currentLine)))

RECURSIVE JoinLoop000(_, _, _, _, _)
\* part_000:115-142
JoinLoop000(lines, n, fullText, lastY, lastHeight) ==
  IF n > Len(lines) THEN fullText
  ELSE LET line == lines[n]
           lineText == Join(Strs(line), <<" ">>)
           gap == line[1].y - lastY
           isNewParagraph == lastY > 0 /\ gap > lastHeight * 2
           text == IF isNewParagraph THEN fullText \o <<"\n", "\n">> \o lineText
                   ELSE IF Len(fullText) > 0 /\ fullText[Len(fullText)] = "-"
                        THEN SubSeq(fullText, 1, Len(fullText) - 1) \o lineText
                        ELSE fullText \o <<" ">> \o lineText
       IN JoinLoop000(lines, n + 1, text, line[1].y, line[1].height)

RECURSIVE CollapseSpaces(_, _)
\* .replace(/\s+/g, ' ') from index i on
CollapseSpaces(s, i) ==
  IF i > Len(s) THEN <<>>
  ELSE IF IsSpace(s[i]) THEN <<" ">> \o CollapseSpaces(s, SpaceEnd(s, i) + 1)
  ELSE <<s[i]>> \o CollapseSpaces(s, i + 1)

RECURSIVE FixBreaks(_, _)
\* .replace(/\n \n/g, '\n\n') from index i on
FixBreaks(s, i) ==
  IF i > Len(s) THEN <<>>
  ELSE IF i + 2 <= Len(s) /\ s[i] = "\n" /\ s[i + 1] = " " /\ s[i + 2] = "\n"
       THEN <<"\n", "\n">> \o FixBreaks(s, i + 3)
       ELSE <<s[i]>> \o FixBreaks(s, i + 1)

RECURSIVE TrimLeft(_)
TrimLeft(s) == IF Len(s) > 0 /\ IsSpace(s[1]) THEN TrimLeft(Tail(s)) ELSE s

\* String.prototype.trim
Trim(s) == Reverse(TrimLeft(Reverse(TrimLeft(s))))

processPageText000(its, h) ==
  LET kept == SelectSeq(its, LAMBDA item : TrimNonEmpty(item.str))
      mapped == [k \in 1..Len(kept) |-> ToItem000(kept[k], h)]
      bodyItems == ArraySort("y", FilterHeaderFooter(mapped, h))
      currentY == IF Len(bodyItems) > 0 THEN bodyItems[1].y ELSE 0
      lines == LinesLoop000(bodyItems, 1, currentY, <<>>, <<>>)
      fullText == JoinLoop000(lines, 1, <<>>, 0, 0)
  IN IF Len(mapped) = 0 THEN Ok(<<>>)
     ELSE Ok(Trim(FixBreaks(CollapseSpaces(fullText, 1), 1)))

-----------------------------------------------------------------------------
(* processPageText of src/unnamed/part_002 (lines 43-211) *)

\* getNonTextContent of part_002:88-91
getNonTextContent(ops) ==
  [hasImages |-> Includes(ops.fnArray, OPS_paintImageXObject)
                   \/ Includes(ops.fnArray, OPS_paintInlineImageXObject),
   hasPaths |-> Includes(ops.fnArray, OPS_constructPath)
                  \/ Includes(ops.fnArray, OPS_stroke)]

\* "\n\n[--- Visual Content Detected (Figure/Table/Formula) ---]\n\n"
VisualPlaceholder002 ==
  << "\n", "\n", "[", "-", "-", "-", " ",
     "V", "i", "s", "u", "a", "l", " ", "C", "o", "n", "t", "e", "n", "t", " ",
     "D", "e", "t", "e", "c", "t", "e", "d", " ", "(",
     "F", "i", "g", "u", "r", "e", "/", "T", "a", "b", "l", "e", "/",
     "F", "o", "r", "m", "u", "l", "a", ")", " ", "-", "-", "-", "]", "\n", "\n" >>

\* i.y > viewport.height * 0.05 && i.y < viewport.height * 0.93
InBody002(i, h) == 100 * i.y > 5 * h /\ 100 * i.y < 93 * h

RECURSIVE Loop002(_, _, _, _, _, _, _, _)
\* part_002:150-197: processedLines after the loop and the last flush
Loop002(its, i, lastY, lastHeight, currentLine, lastLineXEnd, processedLines, vis) ==
  IF i > Len(its)
  THEN IF Len(currentLine) > 0
       THEN Append(processedLines, Join(currentLine, <<" ">>))
       ELSE processedLines
  ELSE LET item == its[i]
           newLine == Abs(item.y - lastY) > 5
           h == IF lastHeight = 0 THEN 10 ELSE lastHeight
           gap == item.y - lastY
           flushed == IF newLine /\ Len(currentLine) > 0
                      THEN Append(processedLines, Join(currentLine, <<" ">>))
                      ELSE processedLines
           lines == IF ~newLine THEN flushed
                    ELSE IF gap > 4 * h /\ (vis.hasImages \/ vis.hasPaths)
                         THEN Append(flushed, VisualPlaceholder002)
                         ELSE IF 2 * gap > 3 * h THEN Append(flushed, <<>>)
                         ELSE flushed
           line == IF newLine THEN <<>> ELSE currentLine
           xEnd == IF newLine THEN 0 ELSE lastLineXEnd
           cells == IF xEnd > 0 /\ item.x - xEnd > 20
                    THEN Append(line, <<" ", "|", " ">>) ELSE line
       IN Loop002(its, i + 1,
                  IF newLine THEN item.y ELSE lastY,
                  IF newLine THEN item.height ELSE lastHeight,
                  Append(cells, item.str), item.x + item.width, lines, vis)

\* part_002:100-136: the runs normalised, filtered and sorted
Body002(its, h) ==
  LET kept == SelectSeq(its, LAMBDA item : TrimNonEmpty(item.str))
      mapped == [k \in 1..Len(kept) |-> ToTextBlock(kept[k], h)]
  IN [mapped |-> mapped,
      body |-> ArraySort("line5", SelectSeq(mapped, LAMBDA i : InBody002(i, h)))]

\* part_002:145-211: what is returned once getOperatorList has settled
Finish002(body, ops) ==
  IF ops.rejects THEN Throws        \* getOperatorList is not guarded
  ELSE Ok(RepairHyphenation(
            Join(Loop002(body, 1, body[1].y, body[1].height, <<>>, 0, <<>>,
                         getNonTextContent(ops)),
                 <<"\n">>)))

processPageText002(its, h, ops) ==
  LET sorted == Body002(its, h)
  IN IF Len(sorted.mapped) = 0 THEN Ok(<<>>)
     ELSE IF Len(sorted.body) = 0 THEN Throws      \* items[0].y of an empty array
     ELSE Finish002(sorted.body, ops)

-----------------------------------------------------------------------------
(* The earlier revisions, one step for each await *)

InitVariants ==
  /\ \E p \in Pages : items = p.items /\ operatorList = p.operatorList
  /\ pageWidth = PageSize.width
  /\ pageHeight = PageSize.height
  /\ variant \in {"part_000", "part_002"}
  /\ run = 1
  /\ firstResult = NoResult
  /\ Idle
  /\ peer = NoPeer /\ doc = NoDocument /\ viewer = NoViewer
  /\ app = NoApp /\ db = NoStore

ProcessPageText000 ==
  /\ variant = "part_000" /\ pc = "start"
  /\ result' = processPageText000(items, pageHeight)
  /\ pc' = "done"
  /\ UNCHANGED <<peer, doc, viewer, app, db, page, rawItems, mergedItems, columns, visuals, col, fullPageText,
                 run, firstResult>>

\* await page.getTextContent() settles: lines 99-144 of part_002 run up to
\* the call of getNonTextContent, which asks for the operator list
ProcessPageText002 ==
  /\ variant = "part_002" /\ pc = "start"
  /\ LET sorted == Body002(items, pageHeight)
     IN /\ rawItems' = sorted.body
        /\ IF Len(sorted.mapped) = 0
           THEN result' = Ok(<<>>) /\ pc' = "done"
           ELSE IF Len(sorted.body) = 0
           THEN result' = Throws /\ pc' = "done"
           ELSE result' = result /\ pc' = "getNonTextContent"
  /\ UNCHANGED <<peer, doc, viewer, app, db, page, mergedItems, columns, visuals, col, fullPageText,
                 run, firstResult>>

\* await page.getOperatorList() settles inside getNonTextContent
\* (part_002:44, 145) and the rest of processPageText runs
GetNonTextContent002 ==
  /\ variant = "part_002" /\ pc = "getNonTextContent"
  /\ result' = Finish002(rawItems, operatorList)
  /\ pc' = "done"
  /\ UNCHANGED <<peer, doc, viewer, app, db, page, rawItems, mergedItems, columns, visuals, col, fullPageText,
                 run, firstResult>>

NextVariants == ProcessPageText000 \/ ProcessPageText002 \/ GetNonTextContent002

SpecVariants == InitVariants /\ [][NextVariants]_vars

-----------------------------------------------------------------------------
(* Vocabulary of the properties *)

Range(s) == {s[i] : i \in 1..Len(s)}

Count(s, c) == Cardinality({i \in 1..Len(s) : s[i] = c})

\* s and t hold the same elements the same number of times
SameBag(s, t) == \A c \in Range(s) \cup Range(t) : Count(s, c) = Count(t, c)

\* sub occurs in s as a contiguous piece
Contains(s, sub) ==
  \E i \in 0..(Len(s) - Len(sub)) : SubSeq(s, i + 1, i + Len(sub)) = sub

\* the word characters of s, in order
Letters(s) == SelectSeq(s, IsWord)

\* the texts of the tokens of its, concatenated
TextOf(its) == Join(Strs(its), <<>>)

RECURSIVE LinesLoop(_, _, _, _, _)
\* the lines the inner loop of processPageText assembles from a sorted
\* column: a token opens a new line when isNewLine holds against the y of
\* the line's first token
LinesLoop(colItems, i, lastY, currentLine, lines) ==
  IF i > Len(colItems)
  THEN IF Len(currentLine) > 0 THEN Append(lines, currentLine) ELSE lines
  ELSE LET item == colItems[i]
       IN IF isNewLine(item, lastY)
          THEN LinesLoop(colItems, i + 1, item.y, <<item>>,
                         IF Len(currentLine) > 0 THEN Append(lines, currentLine) ELSE lines)
          ELSE LinesLoop(colItems, i + 1, lastY, Append(currentLine, item), lines)

AssembledLines(colItems) ==
  LinesLoop(colItems, 1, IF Len(colItems) > 0 THEN colItems[1].y ELSE 0, <<>>, <<>>)

\* the lines of every column of the page, column by column
PageLines == [c \in 1..Len(columns) |-> AssembledLines(columns[c])]

\* the boundaries of the page: <<c, k>> lies in column c between its lines
\* k and k + 1
Boundaries ==
  UNION {{<<c, k>> : k \in 1..(Len(PageLines[c]) - 1)} : c \in 1..Len(columns)}

\* lowest bottom edge (y + height) among the tokens of lines 1..k
BottomOf(lines, k) ==
  LET edges == UNION {{lines[j][n].y + lines[j][n].height : n \in 1..Len(lines[j])} :
                        j \in 1..k}
  IN CHOOSE e \in edges : \A f \in edges : f <= e

\* the vertical gap at the boundary after line k
GapAfter(lines, k) == lines[k + 1][1].y - BottomOf(lines, k)

\* a wide-spaced line: more than 2 tokens and some gap above 20
WideSpaced(line) ==
  /\ Len(line) > 2
  /\ \E k \in 1..(Len(line) - 1) : line[k + 1].x - (line[k].x + line[k].width) > 20

allDone == pc = "done" /\ variant = "pdfUtils"

\* every column has been appended and the hyphenation repair has not run
beforeRepair == pc = "columns" /\ col > Len(columns)

\* the text a line is rendered to: the last line of a column is always
\* space-joined, an earlier one is a delimiter row when it is a table candidate
RenderedLine(lines, k) ==
  IF k < Len(lines) /\ isTableCandidate(lines[k]) THEN TableRow(lines[k])
  ELSE ProseLine(lines[k])

-----------------------------------------------------------------------------
(* C1: reading order *)

\* the position of run i below the top of the page
TopOf(i) == pageHeight - items[i].ty

InHeaderBand(y) == 100 * y < 5 * pageHeight
InFooterBand(y) == 100 * y > 95 * pageHeight

\* the non-blank runs strictly between the header and the footer band: the
\* token set of the page
BodyRuns ==
  {i \in 1..Len(items) :
     /\ TrimNonEmpty(items[i].str)
     /\ 100 * TopOf(i) > 5 * pageHeight
     /\ 100 * TopOf(i) < 95 * pageHeight}

\* twice the horizontal centre of run i
RunCentre2(i) == 2 * items[i].tx + items[i].width

\* the texts of the runs of set S, concatenated in page order
RunText(S) == Join([i \in 1..Len(items) |-> IF i \in S THEN items[i].str ELSE <<>>], <<>>)

C1_LeftRuns == {i \in BodyRuns : RunCentre2(i) < pageWidth}
C1_RightRuns == {i \in BodyRuns : RunCentre2(i) >= pageWidth}

\* the runs centred left of 45 % and those centred right of 55 % of the page
\* width are each more than 30 % of the token set
C1_TwoSided ==
  LET n == Cardinality(BodyRuns)
      l == Cardinality({i \in BodyRuns : 100 * RunCentre2(i) < 90 * pageWidth})
      r == Cardinality({i \in BodyRuns : 100 * RunCentre2(i) > 110 * pageWidth})
  IN 10 * l > 3 * n /\ 10 * r > 3 * n

\* C1: on a page whose token set is two-sided, the output splits at some
\* position into a part that holds exactly the letters of the left tokens
\* and a part that holds exactly the letters of the right tokens: the text
\* of every left token comes before the text of every right token.
C1_ReadingOrder ==
  (allDone /\ C1_TwoSided) =>
    \E k \in 0..Len(result.text) :
      /\ SameBag(Letters(SubSeq(result.text, 1, k)), Letters(RunText(C1_LeftRuns)))
      /\ SameBag(Letters(SubSeq(result.text, k + 1, Len(result.text))),
                 Letters(RunText(C1_RightRuns)))

-----------------------------------------------------------------------------
(* C2: table detection *)

\* C2: every assembled line with more than 2 tokens and a gap above 20 is in
\* the output as the delimiter row "| t1 | ... | tn |".
C2_TableRows ==
  allDone =>
    \A c \in 1..Len(columns) : \A k \in 1..Len(PageLines[c]) :
      WideSpaced(PageLines[c][k]) => Contains(result.text, TableRow(PageLines[c][k]))

-----------------------------------------------------------------------------
(* C3: visual placeholder gating *)

\* the boundaries whose vertical gap is 5 times the height of the token
\* that opens the next line
C3_FiveHeightGaps ==
  {b \in Boundaries :
     GapAfter(PageLines[b[1]], b[2]) = 5 * PageLines[b[1]][b[2] + 1][1].height}

C3_Upper(b) == RenderedLine(PageLines[b[1]], b[2]) \o <<"\n">>
C3_Lower(b) == RenderedLine(PageLines[b[1]], b[2] + 1)

\* text has the lines of boundary b separated by one blank line
C3_ParagraphBreakAt(text, b) == Contains(text, C3_Upper(b) \o <<"\n">> \o C3_Lower(b))

\* text has the placeholder right below the upper line of boundary b
C3_PlaceholderAt(text, b) == Contains(text, C3_Upper(b) \o VisualPlaceholder)

\* C3 as stated: at a gap of 5 heights the output has the placeholder when
\* hasImagePaint is true, and an ordinary paragraph break and no placeholder
\* when hasImagePaint is false.
C3_GatedByImagePaint ==
  allDone =>
    \A b \in C3_FiveHeightGaps :
      IF visuals.hasImage
      THEN C3_PlaceholderAt(result.text, b)
      ELSE C3_ParagraphBreakAt(result.text, b) /\ ~Contains(result.text, VisualPlaceholder)

\* C3 amended: at a gap of 5 heights the line assembler emits the placeholder
\* when hasImagePaint or hasVectorPath is true, and an ordinary paragraph
\* break and no placeholder when both are false; the placeholder is in the
\* returned text exactly when it was emitted.
C3_GatedByEitherSignal ==
  LET signal == visuals.hasImage \/ visuals.hasGraphics
  IN /\ beforeRepair =>
          \A b \in C3_FiveHeightGaps :
            IF signal
            THEN C3_PlaceholderAt(fullPageText, b)
            ELSE C3_ParagraphBreakAt(fullPageText, b)
                   /\ ~Contains(fullPageText, VisualPlaceholder)
     /\ allDone =>
          \A b \in C3_FiveHeightGaps :
            IF signal
            THEN C3_PlaceholderAt(result.text, b)
            ELSE ~Contains(result.text, VisualPlaceholder)

\* a gap of 5 heights on a page that paints no image but constructs a path
C3_Witness ==
  /\ allDone
  /\ C3_FiveHeightGaps # {}
  /\ ~visuals.hasImage /\ visuals.hasGraphics

-----------------------------------------------------------------------------
(* C4: hyphenation repair *)

RECURSIVE C4_WordStart(_, _)
\* index of the first character of the \w run that ends at i
C4_WordStart(s, i) == IF i > 1 /\ IsWord(s[i - 1]) THEN C4_WordStart(s, i - 1) ELSE i

\* the line text ends in a word-character run followed by a hyphen
C4_EndsHyphenated(text) ==
  Len(text) >= 2 /\ text[Len(text)] = "-" /\ IsWord(text[Len(text) - 1])

C4_Fragment(text) == SubSeq(text, C4_WordStart(text, Len(text) - 1), Len(text) - 1)

C4_Continuation(text) == SubSeq(text, 1, WordEnd(text, 1))

\* the boundaries inside a paragraph (no gap above 1.5 heights) whose upper
\* line ends hyphenated and whose lower line begins with a word character
C4_SplitWords ==
  {b \in Boundaries :
     LET lines == PageLines[b[1]]
         upper == RenderedLine(lines, b[2])
         lower == RenderedLine(lines, b[2] + 1)
     IN /\ 2 * GapAfter(lines, b[2]) <= 3 * lines[b[2] + 1][1].height
        /\ C4_EndsHyphenated(upper)
        /\ Len(lower) > 0 /\ IsWord(lower[1])}

\* C4: for every such pair of lines the output holds the two fragments
\* concatenated directly, and no longer holds them split by hyphen and break.
C4_Repaired ==
  allDone =>
    \A b \in C4_SplitWords :
      LET lines == PageLines[b[1]]
          w == C4_Fragment(RenderedLine(lines, b[2]))
          v == C4_Continuation(RenderedLine(lines, b[2] + 1))
      IN /\ Contains(result.text, w \o v)
         /\ ~Contains(result.text, w \o <<"-", "\n">> \o v)

-----------------------------------------------------------------------------
(* C5: header and footer exclusion *)

\* C5: the coalescer receives no token of the header or footer band and
\* receives every non-blank run that lies strictly between the bands; the
\* output holds the letters of exactly these runs.
C5_BandsExcluded ==
  /\ (pc = "merge") =>
       /\ \A n \in 1..Len(rawItems) :
            ~InHeaderBand(rawItems[n].y) /\ ~InFooterBand(rawItems[n].y)
       /\ \A i \in BodyRuns :
            \E n \in 1..Len(rawItems) :
              /\ rawItems[n].str = items[i].str
              /\ rawItems[n].x = items[i].tx
              /\ rawItems[n].y = TopOf(i)
       /\ Len(rawItems) = Cardinality(BodyRuns)
  /\ (allDone /\ ~Contains(result.text, VisualPlaceholder)) =>
       SameBag(Letters(result.text), Letters(RunText(BodyRuns)))

\* a page with a header run, a footer run and a body run has been processed
C5_Witness ==
  /\ allDone
  /\ \E i \in 1..Len(items) : TrimNonEmpty(items[i].str) /\ InHeaderBand(TopOf(i))
  /\ \E i \in 1..Len(items) : TrimNonEmpty(items[i].str) /\ InFooterBand(TopOf(i))
  /\ BodyRuns # {}

-----------------------------------------------------------------------------
(* C6: empty input *)

\* every run of the page is blank or lies inside the header or footer band
C6_NoTokens ==
  \A i \in 1..Len(items) :
    \/ ~TrimNonEmpty(items[i].str)
    \/ InHeaderBand(TopOf(i))
    \/ InFooterBand(TopOf(i))

\* C6: a page without tokens is reconstructed without an exception and its
\* result holds no text, in every revision of processPageText.
C6_EmptyPage ==
  (pc = "done" /\ C6_NoTokens) =>
    result.status = "ok" /\ Letters(result.text) = <<>>

-----------------------------------------------------------------------------
(* C7: idempotence *)

\* C7: the second reconstruction of a page returns what the first returned.
C7_Idempotent ==
  (allDone /\ run = 2) => result = firstResult

\* the second reconstruction is done and the first one had extended a token
\* in place (some token of its rawItems array holds a coalesced text)
C7_Witness ==
  /\ allDone /\ run = 2
  /\ \E n \in 1..Len(rawItems) :
       \A i \in 1..Len(items) : rawItems[n].str # items[i].str

-----------------------------------------------------------------------------
(* C8: column partition *)

\* C8: right after the split, every coalesced token is in exactly one
\* column and the columns hold nothing else.
C8_Partition ==
  (pc = "visuals") =>
    /\ \A t \in Range(mergedItems) \cup UNION {Range(columns[c]) : c \in 1..Len(columns)} :
         Count(mergedItems, t) =
           Count(columns[1], t) + (IF Len(columns) > 1 THEN Count(columns[2], t) ELSE 0)
    /\ \A c \in 1..Len(columns) : \A d \in 1..Len(columns) :
         c # d => Range(columns[c]) \cap Range(columns[d]) = {}
    /\ Len(columns) \in {1, 2}

\* two columns have been declared on a page with a token centred between
\* 45 % and 55 % of the page width
C8_Witness ==
  /\ pc = "visuals" /\ Len(columns) = 2
  /\ \E n \in 1..Len(mergedItems) :
       /\ 100 * (2 * mergedItems[n].x + mergedItems[n].width) >= 90 * pageWidth
       /\ 100 * (2 * mergedItems[n].x + mergedItems[n].width) <= 110 * pageWidth

-----------------------------------------------------------------------------
(* C9: column decision *)

CentreOf2(t) == 2 * t.x + t.width

\* the coalesced tokens centred left of 45 % and those centred right of 55 %
\* of the page width are each more than 30 % of the coalesced tokens
C9_TwoSided ==
  LET n == Len(mergedItems)
      l == Cardinality({i \in 1..n : 100 * CentreOf2(mergedItems[i]) < 90 * pageWidth})
      r == Cardinality({i \in 1..n : 100 * CentreOf2(mergedItems[i]) > 110 * pageWidth})
  IN 10 * l > 3 * n /\ 10 * r > 3 * n

C9_LeftTokens == SelectSeq(mergedItems, LAMBDA t : CentreOf2(t) < pageWidth)
C9_RightTokens == SelectSeq(mergedItems, LAMBDA t : CentreOf2(t) >= pageWidth)

\* C9: two columns are declared exactly on two-sided pages; every other
\* page gets one column holding all tokens; in two-column mode the left
\* column holds exactly the tokens centred left of the page middle.
C9_Decision ==
  (pc = "visuals") =>
    /\ Len(columns) = 2 <=> C9_TwoSided
    /\ ~C9_TwoSided => columns = <<mergedItems>>
    /\ C9_TwoSided => columns = <<C9_LeftTokens, C9_RightTokens>>

\* one column was declared although the page has a token left of 45 % and
\* a token right of 55 %
C9_Witness ==
  /\ pc = "visuals" /\ Len(columns) = 1
  /\ \E n \in 1..Len(mergedItems) : 100 * CentreOf2(mergedItems[n]) < 90 * pageWidth
  /\ \E n \in 1..Len(mergedItems) : 100 * CentreOf2(mergedItems[n]) > 110 * pageWidth

-----------------------------------------------------------------------------
(* C10: token invariant *)

\* C10: every token the coalescer returns has width >= 0 and a text that is
\* not blank (its input tokens all have width >= 0 and non-blank text).
C10_TokenInvariant ==
  (pc = "split" /\ \A i \in 1..Len(items) : items[i].width >= 0) =>
    \A n \in 1..Len(mergedItems) :
      mergedItems[n].width >= 0 /\ TrimNonEmpty(mergedItems[n].str)

-----------------------------------------------------------------------------
(* C11: line invariant *)

\* the tokens of line are in ascending x order
C11_AscendingX(line) == \A k \in 1..(Len(line) - 1) : line[k].x <= line[k + 1].x

\* C11: every line the line assembler has closed and rendered holds its
\* tokens in ascending x order.
C11_LinesSortedByX ==
  allDone =>
    \A c \in 1..Len(columns) : \A k \in 1..Len(PageLines[c]) :
      C11_AscendingX(PageLines[c][k])

-----------------------------------------------------------------------------
(* C12: independent pages *)

\* C12: whatever the interleaving of the two invocations, each returns the
\* text that processPageText returns for its page when it runs alone.
C12_Independent ==
  /\ (pc = "done") =>
       result = [status |-> "ok",
                 text |-> processPageText(items, pageWidth, pageHeight, operatorList)]
  /\ (peer.pc = "done") =>
       peer.result = [status |-> "ok",
                      text |-> processPageText(peer.items, pageWidth, pageHeight,
                                               peer.operatorList)]

\* both invocations have returned, with different texts that are not blank,
\* and the first one had coalesced runs in place
C12_Witness ==
  /\ pc = "done" /\ peer.pc = "done"
  /\ result.text # peer.result.text
  /\ Letters(result.text) # <<>> /\ Letters(peer.result.text) # <<>>
  /\ Len(rawItems) > Len(mergedItems)

-----------------------------------------------------------------------------
(* C13: page cap and page markers *)

\* the marker of page i
C13_Marker(i) ==
  <<"-", "-", "-", " ", "P", "a", "g", "e", " ">> \o Decimal(i) \o <<" ", "-", "-", "-">>

RECURSIVE C13_Markers(_, _)
\* the markers of pages i..n in ascending order, each set off by blank
\* lines and followed by the text of its page
C13_Markers(i, n) ==
  IF i > n THEN <<>>
  ELSE <<"\n", "\n">> \o C13_Marker(i) \o <<"\n", "\n">> \o DocPageText(i)
         \o C13_Markers(i + 1, n)

\* C13: extractTextFromPdf requests the pages 1, 2, ... in order and never a
\* page beyond min(numPages, 30); when it resolves it has requested and
\* processed exactly the pages 1..min(numPages, 30) and its result is the
\* markers of these pages in ascending order, each followed by its page's text.
C13_PageCapAndMarkers ==
  LET cap == IF doc.numPages < 30 THEN doc.numPages ELSE 30
  IN (doc.kind = "document") =>
       /\ \A k \in 1..Len(doc.requested) : doc.requested[k] = k /\ k <= cap
       /\ (doc.pc = "done" /\ doc.outcome.status = "resolved") =>
            /\ doc.requested = [k \in 1..cap |-> k]
            /\ doc.read = [k \in 1..cap |-> k]
            /\ doc.outcome.text = C13_Markers(1, cap)

\* a document of more than 30 pages has been extracted
C13_Witness ==
  /\ doc.kind = "document" /\ doc.numPages > 30
  /\ doc.pc = "done" /\ doc.outcome.status = "resolved"

-----------------------------------------------------------------------------
(* C14: upstream failures *)

\* an upstream call of the request has failed: the document did not open, a
\* page fetch or a text retrieval rejected, or the page request named a
\* page outside 1..numPages
C14_UpstreamFailed ==
  \/ doc.fault.call = "getDocument" /\ doc.opened > 0
  \/ doc.fault.call = "getPage" /\ doc.fault.at \in Range(doc.requested)
  \/ doc.fault.call = "getTextContent" /\ doc.fault.at \in Range(doc.read)
  \/ /\ doc.kind = "page" /\ doc.opened > 0 /\ doc.fault.call # "getDocument"
     /\ (doc.pageNumber < 1 \/ doc.pageNumber > doc.numPages)

\* C14: a request with a failed upstream call ends rejected, without text,
\* and has made no upstream call twice.
C14_SingleFailure ==
  (doc.pc = "done" /\ C14_UpstreamFailed) =>
    /\ doc.outcome = [status |-> "rejected", text |-> <<>>]
    /\ doc.opened = 1
    /\ Cardinality(Range(doc.requested)) = Len(doc.requested)
    /\ Cardinality(Range(doc.read)) = Len(doc.read)

-----------------------------------------------------------------------------
(* C15: failing drawing-operator summary *)

\* C15: when getOperatorList fails, the visual signal is all-false and
\* processPageText returns the text it returns for the same page without
\* drawing operators, which holds no visual placeholder.
C15_OperatorFailureTolerated ==
  (variant = "pdfUtils" /\ operatorList.rejects) =>
    /\ (pc \in {"columns", "done"}) =>
         visuals = [hasImage |-> FALSE, hasGraphics |-> FALSE]
    /\ (pc = "done") =>
         /\ result = [status |-> "ok",
                      text |-> processPageText(items, pageWidth, pageHeight, NoOperators)]
         /\ ~Contains(result.text, VisualPlaceholder)

\* a page with a gap of five heights whose getOperatorList fails has been
\* processed
C15_Witness ==
  /\ allDone /\ operatorList.rejects
  /\ C3_FiveHeightGaps # {}
  /\ Letters(result.text) # <<>>

-----------------------------------------------------------------------------
(* C19: visual signal derivation *)

\* C19: once the operator list has been read, hasImagePaint is true exactly
\* when it holds paintImageXObject or paintInlineImageXObject, and
\* hasVectorPath is true exactly when it holds constructPath or stroke.
C19_SignalDerivation ==
  (variant = "pdfUtils" /\ pc \in {"columns", "done"} /\ ~operatorList.rejects) =>
    /\ visuals.hasImage <=>
         \/ Includes(operatorList.fnArray, OPS_paintImageXObject)
         \/ Includes(operatorList.fnArray, OPS_paintInlineImageXObject)
    /\ visuals.hasGraphics <=>
         \/ Includes(operatorList.fnArray, OPS_constructPath)
         \/ Includes(operatorList.fnArray, OPS_stroke)

-----------------------------------------------------------------------------
(* C16: highlight relocation *)

\* str without the characters that are not a Latin letter, a digit or a CJK
\* character, the rest in lower case
C16_Normalized(str) ==
  LET kept == SelectSeq(str, LAMBDA c : c \in LowerCase \cup UpperCase \cup Digits \/ c \in CJK)
  IN [k \in 1..Len(kept) |->
        IF \E i \in 1..26 : Capitals[i] = kept[k]
        THEN Alphabet[CHOOSE i \in 1..26 : Capitals[i] = kept[k]]
        ELSE kept[k]]

C16_PageText == C16_Normalized(Join(viewer.textNodes, <<>>))

C16_Fragment == C16_Normalized(viewer.highlightText)

C16_Anchor == SubSeq(C16_Fragment, 1, IF Len(C16_Fragment) < 50 THEN Len(C16_Fragment) ELSE 50)

\* anchor stands in text from index k (from 0) on
C16_OccursAt(text, anchor, k) ==
  /\ k + Len(anchor) <= Len(text)
  /\ SubSeq(text, k + 1, k + Len(anchor)) = anchor

C16_AnchorOccurs ==
  LET text == C16_PageText
      anchor == C16_Anchor
  IN \E k \in 0..Len(text) : C16_OccursAt(text, anchor, k)

\* calculateHighlights has read the text nodes of a ready text layer
C16_Calculated ==
  /\ viewer.pc = "done"
  /\ viewer.textLayerReady
  /\ Len(viewer.highlightText) >= 3
  /\ Len(viewer.textNodes) > 0

\* the highlight starts at the first occurrence of the anchor, on the page
\* character that stands there, and ends within the character mapping
C16_Relocated ==
  LET text == C16_PageText
      anchor == C16_Anchor
  IN /\ viewer.searchKey = anchor
     /\ viewer.highlights = "set"
     /\ C16_OccursAt(text, anchor, viewer.startIndex)
     /\ \A k \in 0..(viewer.startIndex - 1) : ~C16_OccursAt(text, anchor, k)
     /\ viewer.startIndex <= viewer.endIndex
     /\ viewer.endIndex <= Len(text) - 1
     /\ ToLowerCase(viewer.textNodes[viewer.range[1]][viewer.range[2] + 1]) = anchor[1]

\* C16 as stated: whenever the anchor, the first 50 normalized characters of
\* the fragment, occurs in the normalized page text, the highlight starts at
\* its first occurrence and ends within the page's character mapping.
C16_HighlightAtAnchor ==
  (C16_Calculated /\ C16_AnchorOccurs) => C16_Relocated

\* C16 amended: whenever an anchor of at least 3 normalized characters occurs
\* in the normalized page text, the highlight starts at its first occurrence
\* and ends within the page's character mapping.
C16_HighlightAtLongAnchor ==
  (C16_Calculated /\ C16_AnchorOccurs /\ Len(C16_Anchor) >= 3) => C16_Relocated

\* a fragment of more than 50 normalized characters whose anchor is on the
\* page, not at its start, while the whole fragment is not, and whose
\* highlight is cut at the last mapped character
C16_Witness ==
  /\ C16_Calculated
  /\ Len(C16_Fragment) > 50
  /\ C16_AnchorOccurs
  /\ IndexOf(C16_PageText, C16_Fragment) = 0 - 1
  /\ viewer.highlights = "set"
  /\ viewer.startIndex > 0
  /\ viewer.endIndex = Len(C16_PageText) - 1
  /\ viewer.endIndex < viewer.startIndex + Len(C16_Fragment) - 1

-----------------------------------------------------------------------------
(* C17: the step rule of the coalescer *)

\* the sorted token list that mergeTextItems walks
C17_Sorted == ArraySort("merge", FilterHeaderFooter(Normalize(items, pageHeight), pageHeight))

\* the accumulator of the walk: its text, origin, height and right edge
C17_Start(token) ==
  [text |-> token.str, x |-> token.x, y |-> token.y, height |-> token.height,
   right |-> token.x + token.width]

\* |acc.y - next.y| < acc.height/2 and next.x - (acc.x + acc.width) < acc.height*0.5
C17_Merges(acc, next) ==
  /\ (IF acc.y >= next.y THEN acc.y - next.y ELSE next.y - acc.y) * 2 < acc.height
  /\ (next.x - acc.right) * 2 < acc.height

RECURSIVE C17_Walk(_, _, _)
\* the accumulators emitted by the walk from token number i on
C17_Walk(sorted, i, acc) ==
  IF i > Len(sorted) THEN <<acc>>
  ELSE IF C17_Merges(acc, sorted[i])
  THEN C17_Walk(sorted, i + 1,
                [acc EXCEPT !.text = @ \o sorted[i].str,
                            !.right = sorted[i].x + sorted[i].width])
  ELSE <<acc>> \o C17_Walk(sorted, i + 1, C17_Start(sorted[i]))

C17_Emitted ==
  IF Len(C17_Sorted) = 0 THEN <<>> ELSE C17_Walk(C17_Sorted, 2, C17_Start(C17_Sorted[1]))

\* C17: the tokens that mergeTextItems returns are the accumulators of the
\* walk that merges the next token iff it is on the accumulator's line and
\* adjacent to it, appending its text and moving the right edge to
\* next.x + next.width, and that emits the accumulator otherwise.
C17_StepRule ==
  (variant = "pdfUtils" /\ run = 1 /\ pc = "split") =>
    LET emitted == C17_Emitted
    IN /\ Len(mergedItems) = Len(emitted)
       /\ \A k \in 1..Len(emitted) :
            /\ mergedItems[k].str = emitted[k].text
            /\ mergedItems[k].x = emitted[k].x
            /\ mergedItems[k].y = emitted[k].y
            /\ mergedItems[k].height = emitted[k].height
            /\ mergedItems[k].x + mergedItems[k].width = emitted[k].right

\* a token merged over a gap, next to a token that was emitted on its own
C17_Witness ==
  /\ variant = "pdfUtils" /\ run = 1 /\ pc = "split"
  /\ Len(mergedItems) >= 2
  /\ LET sorted == C17_Sorted
     IN \E k \in 1..Len(mergedItems) : \E i \in 1..(Len(sorted) - 1) :
          /\ mergedItems[k].str = sorted[i].str \o sorted[i + 1].str
          /\ sorted[i + 1].x # sorted[i].x + sorted[i].width
          /\ mergedItems[k].x + mergedItems[k].width = sorted[i + 1].x + sorted[i + 1].width

-----------------------------------------------------------------------------
(* C18: vertical-gap classification *)

\* the bottom edge of a line: the lowest bottom edge of its tokens
C18_LineBottom(line) ==
  LET edges == {line[n].y + line[n].height : n \in 1..Len(line)}
  IN CHOOSE e \in edges : \A f \in edges : f <= e

\* what the rule puts between the lines of boundary b: gap is the next
\* line's y minus the previous line's bottom, height that of the token that
\* opens the next line
C18_Outcome(b) ==
  LET lines == PageLines[b[1]]
      opener == lines[b[2] + 1][1]
      gap == opener.y - C18_LineBottom(lines[b[2]])
  IN IF gap > 4 * opener.height /\ (visuals.hasImage \/ visuals.hasGraphics)
     THEN VisualPlaceholder
     ELSE IF 2 * gap > 3 * opener.height THEN <<"\n">> ELSE <<>>

\* C18: at each line boundary exactly one outcome stands between the two
\* lines: the placeholder when the gap from the previous line's bottom
\* exceeds 4 heights and a visual signal is true, otherwise one paragraph
\* break when it exceeds 1.5 heights, otherwise nothing.
C18_GapClassification ==
  (beforeRepair /\ variant = "pdfUtils") =>
    \A b \in Boundaries :
      Contains(fullPageText, C3_Upper(b) \o C18_Outcome(b) \o C3_Lower(b))

-----------------------------------------------------------------------------
(* C20: paragraph joining *)

\* the boundaries inside a paragraph: no paragraph break or placeholder is
\* due there, whether the gap is taken from the previous line's bottom or
\* from the lowest bottom edge so far, and the upper line does not end in a
\* hyphen
C20_InsideParagraph ==
  {b \in Boundaries :
     LET lines == PageLines[b[1]]
         upper == RenderedLine(lines, b[2])
     IN /\ C18_Outcome(b) = <<>>
        /\ 2 * GapAfter(lines, b[2]) <= 3 * lines[b[2] + 1][1].height
        /\ upper[Len(upper)] # "-"}

\* C20: two consecutive lines of a column that no paragraph break separates,
\* and that are not a hyphenated word split, are in the output joined by
\* exactly one space.
C20_JoinedBySpace ==
  allDone =>
    \A b \in C20_InsideParagraph :
      Contains(result.text,
               RenderedLine(PageLines[b[1]], b[2]) \o <<" ">>
                 \o RenderedLine(PageLines[b[1]], b[2] + 1))

-----------------------------------------------------------------------------
(* C21: sequential per-page I/O *)

\* the pages for which getPage has been issued, in the order of the calls
C21_PagesRequested ==
  LET issued == SelectSeq(doc.calls, LAMBDA e : e.call = "getPage" /\ e.phase = "issued")
  IN [k \in 1..Len(issued) |-> issued[k].page]

\* the calls made before getPage(n) was issued
C21_Before(n) ==
  LET at == CHOOSE k \in 1..Len(doc.calls) : doc.calls[k] = Issued("getPage", n)
  IN {doc.calls[k] : k \in 1..(at - 1)}

\* C21: extractTextFromPdf requests the pages in the order 1, 2, ...,
\* maxPages, each once; getPage(i + 1) is issued only after the text,
\* viewport and operator-list calls of page i have completed and the text of
\* page i is appended; a request that resolves has requested them all.
C21_Sequential ==
  doc.pc # "none" /\ doc.kind = "document" =>
    LET pages == C21_PagesRequested
        last == IF doc.numPages < 30 THEN doc.numPages ELSE 30
    IN /\ Len(pages) <= last
       /\ \A k \in 1..Len(pages) : pages[k] = k
       /\ \A k \in 2..Len(pages) :
            {Completed("getPage", k - 1), Completed("getTextContent", k - 1),
             Completed("getViewport", k - 1), Completed("getOperatorList", k - 1),
             Completed("append", k - 1)} \subseteq C21_Before(k)
       /\ doc.outcome.status = "resolved" => Len(pages) = last

\* a document of more pages than the cap, read to the end
C21_Witness ==
  /\ doc.pc = "done" /\ doc.kind = "document"
  /\ doc.outcome.status = "resolved"
  /\ doc.numPages > 30
  /\ Len(C21_PagesRequested) = 30

-----------------------------------------------------------------------------
(* C22: frozen after flush *)

\* a and b hold the same tokens, each as often
C22_SameTokens(a, b) ==
  /\ Len(a) = Len(b)
  /\ \A t \in Range(a) \cup Range(b) :
       Cardinality({k \in 1..Len(a) : a[k] = t}) = Cardinality({k \in 1..Len(b) : b[k] = t})

\* C22: a token that the coalescer has flushed to its output list is as it
\* was flushed when the coalescer returns (the token objects are those of
\* the rawItems array), and the rest of the page reconstruction leaves the
\* text, x, y, width and height of every token as they are.
C22_FrozenAfterFlush ==
  [][ /\ (pc = "merge" /\ pc' = "split") =>
           \A k \in 1..Len(mergedItems') : mergedItems'[k] \in Range(rawItems')
      /\ (pc \in {"split", "visuals", "columns"} /\ variant = "pdfUtils") =>
           /\ rawItems' = rawItems
           /\ C22_SameTokens(mergedItems', mergedItems)
           /\ \A c \in 1..Len(columns') : Range(columns'[c]) \subseteq Range(mergedItems)
    ]_vars

\* a page with a coalesced token and a second token, reconstructed to the end
C22_Witness ==
  /\ allDone
  /\ Len(mergedItems) >= 2
  /\ Len(mergedItems) < Len(rawItems)

-----------------------------------------------------------------------------
(* C23: coalesced text is in left-to-right order *)

RECURSIVE C23_Groups(_, _, _, _)
\* the fragments of every token that the walk emits from token number i on;
\* acc is the accumulator and group the fragments merged into it so far
C23_Groups(sorted, i, acc, group) ==
  IF i > Len(sorted) THEN <<group>>
  ELSE IF C17_Merges(acc, sorted[i])
  THEN C23_Groups(sorted, i + 1,
                  [acc EXCEPT !.right = sorted[i].x + sorted[i].width],
                  Append(group, sorted[i]))
  ELSE <<group>> \o C23_Groups(sorted, i + 1, C17_Start(sorted[i]), <<sorted[i]>>)

C23_Fragments ==
  IF Len(C17_Sorted) = 0 THEN <<>>
  ELSE C23_Groups(C17_Sorted, 2, C17_Start(C17_Sorted[1]), <<C17_Sorted[1]>>)

\* C23: the text of every token that mergeTextItems returns is that of its
\* fragments in ascending x order, and no fragment starts to the left of
\* the start x of its token.
C23_LeftToRight ==
  (variant = "pdfUtils" /\ run = 1 /\ pc = "split") =>
    LET groups == C23_Fragments
    IN /\ Len(groups) = Len(mergedItems)
       /\ \A k \in 1..Len(groups) :
            /\ mergedItems[k].str = Join(Strs(groups[k]), <<>>)
            /\ \A j \in 1..(Len(groups[k]) - 1) : groups[k][j].x <= groups[k][j + 1].x
            /\ \A j \in 1..Len(groups[k]) : groups[k][j].x >= mergedItems[k].x

-----------------------------------------------------------------------------
(* C24: hyphenation repair is confined to a paragraph *)

\* the number of places of text where sub stands
C24_Occurrences(text, sub) ==
  Cardinality({i \in 1..(Len(text) - Len(sub) + 1) : SubSeq(text, i, i + Len(sub) - 1) = sub})

\* C24: the repair step removes no blank line, be it a paragraph break or
\* the separator behind a column, and no visual placeholder: the repaired
\* text has as many of each as the text before the repair.
C24_ConfinedToParagraph ==
  [][ (beforeRepair /\ variant = "pdfUtils" /\ pc' = "done") =>
        /\ C24_Occurrences(fullPageText', <<"\n", "\n">>)
             = C24_Occurrences(fullPageText, <<"\n", "\n">>)
        /\ C24_Occurrences(fullPageText', VisualPlaceholder)
             = C24_Occurrences(fullPageText, VisualPlaceholder)
    ]_vars

-----------------------------------------------------------------------------
(* C25: the coalescer conserves text *)

\* C25: the texts of the tokens that mergeTextItems returns, concatenated in
\* output order, are the texts of its input tokens concatenated in the
\* coalescer's sorted order, and the output has at most as many tokens as
\* the input.
C25_TextConserved ==
  (variant = "pdfUtils" /\ run = 1 /\ pc = "split") =>
    /\ Join(Strs(mergedItems), <<>>) = Join(Strs(C17_Sorted), <<>>)
    /\ Len(mergedItems) <= Len(C17_Sorted)

\* three or more runs given out of sorted order, some of them coalesced
C25_Witness ==
  /\ variant = "pdfUtils" /\ run = 1 /\ pc = "split"
  /\ Len(C17_Sorted) >= 3
  /\ C17_Sorted # FilterHeaderFooter(Normalize(items, pageHeight), pageHeight)
  /\ Len(mergedItems) >= 2
  /\ Len(mergedItems) < Len(C17_Sorted)

-----------------------------------------------------------------------------
(* C26: only successful translations are persisted *)

\* the result is the translator's error block or has no blocks
C26_Failed(data) == Len(data.blocks) = 0 \/ data.blocks[1] = ErrorBlock

\* C26: no step writes a translation that is the translator's error block
\* or has no blocks to the translations store, and the step that puts such
\* a result into the in-memory map leaves the store as it is.
C26_OnlySuccessPersisted ==
  [][ /\ \A rec \in db'.translations \ db.translations : ~C26_Failed(rec.data)
      /\ \A e \in app'.pageTranslations \ app.pageTranslations :
           C26_Failed(e.value) => db'.translations = db.translations
    ]_vars

\* the map holds the error block for one page and a result without blocks
\* for another, the store holds neither, and a translation has been saved
C26_Witness ==
  /\ app.pc = "mounted"
  /\ \E e \in app.pageTranslations : e.value.blocks = <<ErrorBlock>>
  /\ \E e \in app.pageTranslations : e.value.blocks = <<>>
  /\ \A e \in app.pageTranslations :
       C26_Failed(e.value) => getPageTranslation(db, app.fileFingerprint, e.key) = Null
  /\ db.translations # {}

-----------------------------------------------------------------------------
(* C27: Retry re-requests the translation.  After Retry is clicked for a   *)
(* page, a new text extraction and translation request for that page is    *)
(* issued in the end.  The steps React and the pending promises take by    *)
(* themselves are AppSteps: as long as the request is still to come, one   *)
(* of them has to be ready, or the request comes only if the user does     *)
(* something more.  The file of the Retry is still open on that page;      *)
(* states where the bound on runs keeps the effect from starting a run     *)
(* are left out.                                                           *)

C27_Waiting ==
  /\ app.pc = "mounted"
  /\ app.retry.pc = "done"
  /\ ~app.retry.requested
  /\ app.mode = "READING"
  /\ app.fileFingerprint = app.retry.fileFingerprint
  /\ app.debouncedPage = app.retry.pageNum
  /\ app.started < MaxRuns

C27_RetryRequestsAgain == C27_Waiting => ENABLED AppSteps

-----------------------------------------------------------------------------
(* C28: isTranslatingPage is true in every state in which some             *)
(* loadTranslation run has started and not yet finished, and false once    *)
(* all runs have finished.                                                 *)

C28_TranslatingWhileRunning ==
  app.pc = "mounted" => (app.isTranslatingPage <=> app.runs # EmptyBag)

-----------------------------------------------------------------------------
(* C29: translations belong to the open file.  After resetApp followed by  *)
(* opening another file, no translation of the previous file is present    *)
(* in pageTranslations, even when a request for the previous file was      *)
(* still in flight at the time of the reset: every entry of the map was    *)
(* made from the content of the file that is open.                         *)

C29_OfOpenFile ==
  (app.pc = "mounted" /\ app.file # Null) =>
    \A e \in app.pageTranslations : e.value.source = app.file.content

-----------------------------------------------------------------------------------------------------------------------------------------------------
(* C30: cascading delete.  Once deleteFromHistory(fingerprint) has         *)
(* completed, the files store holds no record for that fingerprint and     *)
(* the translations store holds no record whose fingerprint field equals   *)
(* it; no step of the call changes a record of another fingerprint.        *)

C30_Others(store, fingerprint) == {r \in store : r.fingerprint # fingerprint}

C30_CascadingDelete ==
  [][ DeleteSteps =>
        LET fingerprint == db.deleting.fingerprint
        IN /\ C30_Others(db'.files, fingerprint) = C30_Others(db.files, fingerprint)
           /\ C30_Others(db'.translations, fingerprint)
                = C30_Others(db.translations, fingerprint)
           /\ db'.deleting.pc = "completed" =>
                /\ C30_Others(db'.files, fingerprint) = db'.files
                /\ C30_Others(db'.translations, fingerprint) = db'.translations
    ]_vars


====
